---- MODULE Spec2Model ----
(***************************************************************************)
(* Module resolution and dependency-graph caching of deno-vite-utils.      *)
(*                                                                         *)
(* DenoResolver (lib/deno-resolver.ts) answers resolve(id, importer),      *)
(* retrieveModule and collectDeps from two maps, `modules` and             *)
(* `idToSpecifierCache`; DenoEnv (lib/deno-env.ts) runs `deno info --json` *)
(* under a mutex.  The plugin (plugins/vite-deno-resolver.ts) turns        *)
(* canonical specifiers into virtual ids.                                  *)
(*                                                                         *)
(* Resolver (lib/resolver.ts) is the earlier resolver of the repository:   *)
(* it keeps three maps and a set of unknown ids, serialises its hooks with *)
(* its own Lock, and persists the maps in a cache file.                    *)
(***************************************************************************)
EXTENDS Integers, Sequences, FiniteSets, TLC

VARIABLES
  world,               \* what `deno info` would print now (the project on disk)
  modules,             \* DenoResolver.modules: specifier -> Module
  idToSpecifierCache,  \* DenoResolver.idToSpecifierCache: id -> specifier
  lock,                \* DenoEnv.lock (async-mutex Mutex)
  calls,               \* the root resolve(id, null) calls of the bundler, one per slot
  issued,              \* number of root resolve() calls issued so far
  lastNested,          \* the latest resolve(id, importer) call and its outcome
  firstRet,            \* history: what the first completed resolve(id, null) returned
  firstStored,         \* history: the record first stored under each specifier
  retrieved,           \* the latest retrieveModule call and its outcome
  viteHook,            \* the latest call of the plugin's resolveId hook and its outcome
  codec,               \* the virtual id being encoded or parsed
  walk,                \* the collectDeps call in progress
  walkLog,             \* history of the collectDeps calls
  esmModules,          \* Resolver.#esmModules: local path -> ESM record
  codeSpecifierToPath, \* Resolver.#codeSpecifierToPath: specifier -> local path
  idToSpecifier,       \* Resolver.#idToSpecifier: id -> specifier
  unknownModules,      \* Resolver.#unknownModules
  resolverLock,        \* Resolver.#lock (class Lock)
  cacheFile,           \* the contents of the cache file on disk
  hooks,               \* the resolveBase / resolveNestedImport calls, one per slot
  session,             \* the life of the Resolver instance, and history across instances
  assets               \* remoteAssetCache of plugins/vite-load-hook.ts and its getLocalPath calls

resolverVars == <<world, modules, idToSpecifierCache, lock, calls, issued, lastNested,
                  firstRet, firstStored, retrieved, viteHook>>

legacyVars == <<esmModules, codeSpecifierToPath, idToSpecifier, unknownModules, resolverLock,
                cacheFile, hooks, session, assets>>

vars == <<resolverVars, codec, walk, walkLog, legacyVars>>

(***************************************************************************)
(* Bounds of the model.                                                    *)
(***************************************************************************)
MaxCalls == 2
MaxIssued == 3
MaxHooks == 2
MaxHookCalls == 2
MaxLoads == 3
MaxClients == 3
MaxAcquires == 6
MaxAssetCalls == 4

CallIds == 1..MaxCalls

(***************************************************************************)
(* JavaScript values.                                                      *)
(***************************************************************************)
Null == "null"
Undefined == "undefined"

MapHas(m, k) == k \in DOMAIN m
MapGet(m, k) == IF k \in DOMAIN m THEN m[k] ELSE Undefined
MapSet(m, k, v) == [x \in (DOMAIN m) \cup {k} |-> IF x = k THEN v ELSE m[x]]
EmptyMap == [x \in {} |-> Undefined]

\* A string is truthy unless it is undefined or empty.
Truthy(v) == v # Undefined /\ v # ""

(***************************************************************************)
(* The inspection command.  A world is the project as `deno info` sees it: *)
(* the import map, the redirects, the ESM modules with their dependencies, *)
(* the npm and node modules; any other specifier is a missing file, which  *)
(* `deno info` reports as an error entry.  `fail` holds the ids for which  *)
(* the command exits nonzero, `absent` the specifiers for which the output *)
(* carries no entry in its modules array.                                  *)
(***************************************************************************)
Dep(written, target) == [specifier |-> written, code |-> [specifier |-> target]]

\* A dependency that is imported for its types only: the entry has no `code` part.
TypeDep(written, target) == [specifier |-> written, type |-> [specifier |-> target]]

\* The specifier a dependency entry names.
DepTarget(d) == IF "code" \in DOMAIN d THEN d.code.specifier ELSE d.type.specifier

WorldA ==
  [ importMap |-> ("m" :> "jsr:c"),
    redirects |-> ("jsr:c" :> "C") @@ ("npm:p" :> "npm:/p"),
    esm       |-> ("A" :> <<Dep("./b", "B"), Dep("jsr:c", "jsr:c")>>)
                  @@ ("B" :> <<Dep("./a", "A"), Dep("./a", "jsr:c"), Dep("./e", "E")>>)
                  @@ ("C" :> <<Dep("npm:p", "npm:p"), Dep("node:fs", "node:fs")>>),
    media     |-> ("A" :> "TSX") @@ ("B" :> "TypeScript") @@ ("C" :> "JavaScript"),
    npm       |-> {"npm:/p"},
    node      |-> {"node:fs"},
    fail      |-> {"bad"},
    absent    |-> {} ]

\* The same project after C was edited: it no longer imports node:fs.
WorldB ==
  [ WorldA EXCEPT !.esm = [WorldA.esm EXCEPT !["C"] = <<Dep("npm:p", "npm:p")>>] ]

\* The same project while the remote module C cannot be inspected: the output names C
\* in its redirects and in the dependencies of A and B but has no entry for it, and
\* the command fails when it is asked for C itself.
WorldPartial == [WorldA EXCEPT !.absent = {"C"}, !.fail = {"bad", "C"}]

\* The same project when the registry answers jsr:c in two hops: the redirects of the
\* output form a chain jsr:c -> jsr:c@1 -> C.
WorldChain ==
  [WorldA EXCEPT !.redirects = ("jsr:c" :> "jsr:c@1") @@ ("jsr:c@1" :> "C")
                               @@ ("npm:p" :> "npm:/p")]

\* The same project when B imports E for its types only.
WorldTypeOnly ==
  [WorldA EXCEPT !.esm = [WorldA.esm EXCEPT !["B"] =
                            <<Dep("./a", "A"), Dep("./a", "jsr:c"), TypeDep("./e", "E")>>]]

\* The ids the bundler asks for, and the importers it names.
RootIds == {"m", "A", "bad"}
NestedIds == {"./a", "./b", "A"}
Importers == {"A", "B", "npm:/p", "node:fs", "E", "Z"}

SpecOrder == <<"A", "B", "C", "npm:/p", "node:fs", "E">>

LocalPath(s) == IF s = "A" THEN "/src/a.tsx" ELSE IF s = "B" THEN "/src/b.ts" ELSE "/cache/c.js"

ImportMapped(w, id) == IF id \in DOMAIN w.importMap THEN w.importMap[id] ELSE id
\* The module that deno loads for s: it follows the redirects to their end.
RECURSIVE Redirected(_, _)
Redirected(w, s) == IF s \in DOMAIN w.redirects THEN Redirected(w, w.redirects[s]) ELSE s

\* The keys of the redirects that lead from s to its module.
RECURSIVE Hops(_, _)
Hops(w, s) == IF s \in DOMAIN w.redirects THEN {s} \cup Hops(w, w.redirects[s]) ELSE {}

RawModule(w, s) ==
  IF s \in DOMAIN w.esm
    THEN [kind |-> "esm", specifier |-> s, local |-> LocalPath(s), size |-> 1,
          mediaType |-> w.media[s], dependencies |-> w.esm[s]]
  ELSE IF s \in w.npm THEN [kind |-> "npm", specifier |-> s, npmPackage |-> "p@1"]
  ELSE IF s \in w.node THEN [kind |-> "node", specifier |-> s, moduleName |-> "fs"]
  ELSE [specifier |-> s, error |-> "Module not found"]

DepTargets(w, s) ==
  IF s \in DOMAIN w.esm /\ s \notin w.absent
    THEN {Redirected(w, DepTarget(w.esm[s][i])) : i \in DOMAIN w.esm[s]}
    ELSE {}

RECURSIVE Closure(_, _, _)
Closure(w, frontier, acc) ==
  IF frontier = {} THEN acc
  ELSE LET new == (UNION {DepTargets(w, s) : s \in frontier}) \ acc
       IN  Closure(w, new, acc \cup new)

GraphFrom(w, s) == Closure(w, {s}, {s})

\* Only the redirects the graph uses are printed.
UsedRedirects(w, root, reach) ==
  LET written == {root} \cup UNION {{DepTarget(w.esm[s][i]) : i \in DOMAIN w.esm[s]} :
                                      s \in reach \cap DOMAIN w.esm}
      keys == UNION {Hops(w, s) : s \in written}
  IN  [k \in keys |-> w.redirects[k]]

\* stdout of `deno info --json id`, parsed.
DenoInfo(w, id) ==
  LET root == ImportMapped(w, id)
      reach == GraphFrom(w, Redirected(w, root))
      order == SelectSeq(SpecOrder, LAMBDA s : s \in reach /\ s \notin w.absent)
  IN  [ roots     |-> <<root>>,
        redirects |-> UsedRedirects(w, root, reach),
        modules   |-> [i \in DOMAIN order |-> RawModule(w, order[i])] ]

\* resolveDeno throws: the exit code is not 0 (assert), or stdout is not JSON
\* (JSON.parse).
FailureKinds == {"AssertionError", "SyntaxError"}

CommandFailsNever(w, id) == FALSE
CommandFails(w, id) == id \in w.fail

(***************************************************************************)
(* DenoResolver.                                                           *)
(***************************************************************************)
HasError(module) == "error" \in DOMAIN module
IsEsm(module) == ~HasError(module) /\ module.kind = "esm"

\* transformEsmModule without the look-up in redirects.
TransformEsmModuleNoRedirect(esm, redirects) ==
  [ kind |-> "esm", local |-> esm.local, size |-> esm.size, mediaType |-> esm.mediaType,
    specifier |-> esm.specifier,
    dependencies |->
      [i \in DOMAIN esm.dependencies |->
         [ relativePath |-> esm.dependencies[i].specifier,
           specifier |-> esm.dependencies[i].code.specifier ]] ]

TransformEsmModule(esm, redirects) ==
  [ kind |-> "esm", local |-> esm.local, size |-> esm.size, mediaType |-> esm.mediaType,
    specifier |-> esm.specifier,
    dependencies |->
      [i \in DOMAIN esm.dependencies |->
         [ relativePath |-> esm.dependencies[i].specifier,
           specifier |-> IF esm.dependencies[i].code.specifier \in DOMAIN redirects
                           THEN redirects[esm.dependencies[i].code.specifier]
                           ELSE esm.dependencies[i].code.specifier ]] ]

\* The record callDenoInfo stores for one entry of info.modules.
StoredRecord(module, redirects) ==
  IF HasError(module) \/ module.kind # "esm" THEN module
  ELSE TransformEsmModule(module, redirects)

\* The loop of callDenoInfo over info.modules.
IngestModulesFresh(mods, entries, redirects) ==
  [s \in {entries[i].specifier : i \in DOMAIN entries} |->
     StoredRecord(entries[CHOOSE i \in DOMAIN entries : entries[i].specifier = s], redirects)]

\* The loop left after its first iteration.
IngestModulesFirstOnly(mods, entries, redirects) ==
  IF entries = <<>> THEN mods
  ELSE MapSet(mods, Head(entries).specifier, StoredRecord(Head(entries), redirects))

\* transformEsmModule reads dep.code.specifier of every dependency: a TypeError when a
\* dependency has no `code` part.
TransformThrows(module) ==
  IsEsm(module) /\ \E i \in DOMAIN module.dependencies :
                     "code" \notin DOMAIN module.dependencies[i]

\* The loop of callDenoInfo is left by that TypeError.
IngestThrows(entries) == \E i \in DOMAIN entries : TransformThrows(entries[i])

\* The loop of callDenoInfo over info.modules, as far as it gets.
RECURSIVE IngestModules(_, _, _)
IngestModules(mods, entries, redirects) ==
  IF entries = <<>> THEN mods
  ELSE IF TransformThrows(Head(entries)) THEN mods
  ELSE IngestModules(MapSet(mods, Head(entries).specifier,
                            StoredRecord(Head(entries), redirects)),
                     Tail(entries), redirects)

\* roots[0] taken as it is.
RootSpecifierNoRedirect(info) == info.roots[1]

RootSpecifier(info) ==
  LET actualId == info.roots[1]
  IN  IF actualId \in DOMAIN info.redirects THEN info.redirects[actualId] ELSE actualId

\* The first dependency whose relativePath is id, or null.
RECURSIVE FindDepLast(_, _)
FindDepLast(deps, id) ==
  IF deps = <<>> THEN Null
  ELSE IF deps[Len(deps)].relativePath = id THEN deps[Len(deps)].specifier
  ELSE FindDepLast(SubSeq(deps, 1, Len(deps) - 1), id)

RECURSIVE FindDep(_, _)
FindDep(deps, id) ==
  IF deps = <<>> THEN Null
  ELSE IF Head(deps).relativePath = id THEN Head(deps).specifier
  ELSE FindDep(Tail(deps), id)

Return(v) == [kind |-> "return", value |-> v]
Throw(msg) == [kind |-> "throw", value |-> msg]

\* resolve(id, importerSpecifier) with importerSpecifier !== null.
ResolveWithImporterLenient(mods, id, importerSpecifier) ==
  IF ~MapHas(mods, importerSpecifier) THEN Return(Null)
  ELSE IF ~IsEsm(mods[importerSpecifier]) THEN Return(Null)
  ELSE Return(FindDep(mods[importerSpecifier].dependencies, id))

ResolveWithImporterStrict(mods, id, importerSpecifier) ==
  IF ~MapHas(mods, importerSpecifier) THEN Throw("Importer module not found")
  ELSE IF ~IsEsm(mods[importerSpecifier]) THEN Throw("Importer is not an ESM module")
  ELSE IF FindDep(mods[importerSpecifier].dependencies, id) = Null
    THEN Throw("Failed to resolve")
  ELSE Return(FindDep(mods[importerSpecifier].dependencies, id))

ResolveWithImporter(mods, id, importerSpecifier) ==
  IF ~MapHas(mods, importerSpecifier) THEN Throw("Importer module not found")
  ELSE IF ~IsEsm(mods[importerSpecifier]) THEN Throw("Importer is not an ESM module")
  ELSE Return(FindDep(mods[importerSpecifier].dependencies, id))

\* The memo look-up of a root resolution.
CachedSpecifierNever(memo, id) == Undefined
CachedSpecifier(memo, id) == MapGet(memo, id)

(***************************************************************************)
(* DenoEnv.lock: a mutex whose waiters are served in arrival order.        *)
(***************************************************************************)
MutexIsFreeAlways(l) == TRUE
MutexIsFree(l) == ~l.locked

\* A slot: where the call is, what it asked, what it got, how many commands it has run,
\* and whether the memo already held its id when it was issued.
IdleCall == [pc |-> "idle", id |-> Null, ret |-> Null, err |-> Null, inv |-> 0,
             memoized |-> FALSE]

NoNested == [id |-> Null, importer |-> Null, kind |-> "none", value |-> Null]

NoRetrieved == [specifier |-> Null, kind |-> "none", value |-> Null]

NoViteHook == [id |-> Null, importer |-> Null, target |-> Null, kind |-> "none", value |-> <<>>,
               external |-> FALSE]

NoCodec == [op |-> "none"]

NoWalk == [pc |-> "idle", entry |-> Null, arg |-> Null, seen |-> <<>>, stack |-> <<>>]
NoWalkLog == [runs |-> 0, first |-> EmptyMap, expanded |-> EmptyMap]

(***************************************************************************)
(* The cache file of Resolver, and JSON.  A file is missing or holds text; *)
(* text is unparsable or is the JSON of a value.  Of a JSON value only the *)
(* shape matters here: null, or an object whose properties are arrays of   *)
(* [key, value] pairs or numbers.                                          *)
(***************************************************************************)
Missing == [kind |-> "missing"]
Unparsable == [kind |-> "text", parses |-> FALSE]
JsonText(v) == [kind |-> "text", parses |-> TRUE, value |-> v]

JNull == [type |-> "null"]
JUndefined == [type |-> "undefined"]
JNumber == [type |-> "number"]
JPairs(ps) == [type |-> "pairs", pairs |-> ps]
JObject(fs) == [type |-> "object", fields |-> fs]

\* [...map]: the entries of a Map.
MapEntries(m) == {<<k, m[k]>> : k \in DOMAIN m}

\* A hook call: where it is, what it was asked, the id its resolveId is working on and
\* what called that resolveId, the document its saveCache is writing, what it returned,
\* how many commands it has run, the ids it memoized, and whether the id was known
\* unresolved or memoized when the call was made.
VNull == [kind |-> "null"]

IdleHook == [pc |-> "idle", op |-> "none", id |-> Null, importerId |-> Null,
             importerPath |-> Null, cur |-> Null, k |-> "none", doc |-> Missing,
             ret |-> VNull, inv |-> 0, added |-> {}, wasUnknown |-> FALSE,
             wasMemoized |-> FALSE]

NoRead == [file |-> Missing, esmModules |-> EmptyMap, codeSpecifierToPath |-> EmptyMap,
           idToSpecifier |-> EmptyMap]

\* Before `new Resolver(...)`.
NoSession == [phase |-> "none", issued |-> 0, read |-> NoRead, earlier |-> EmptyMap,
              answers |-> EmptyMap]

HookIds == 1..MaxHooks

\* The getLocalPath calls in flight, one per slot, and the remote assets they ask for:
\* an origin followed by the pieces of the path.
Loads == 1..MaxLoads

AssetUrls ==
  {<<"https://h", "/", "a.css">>, <<"https://h", "/", "d", "/", "a.css">>, <<"https://h", "/">>}

IdleLoad == [pc |-> "idle", url |-> <<>>, content |-> "", result |-> <<>>]

\* `new RemoteAssetCache()`: an empty cache; `fetches` is history, the number of
\* fetch(url) calls made so far.
NoAssets ==
  [cache |-> EmptyMap, fetches |-> [u \in AssetUrls |-> 0], issued |-> 0,
   loads |-> [k \in Loads |-> IdleLoad]]

NoResolver ==
  /\ esmModules = EmptyMap
  /\ codeSpecifierToPath = EmptyMap
  /\ idToSpecifier = EmptyMap
  /\ unknownModules = {}
  /\ resolverLock = [locked |-> FALSE, queue |-> <<>>]
  /\ cacheFile = Missing
  /\ hooks = [t \in HookIds |-> IdleHook]
  /\ session = NoSession
  /\ assets = NoAssets

\* A resolver right after `new DenoResolver(new DenoEnv(root))`.
NewDenoResolver ==
  /\ modules = EmptyMap
  /\ idToSpecifierCache = EmptyMap
  /\ lock = [locked |-> FALSE, queue |-> <<>>]
  /\ calls = [c \in CallIds |-> IdleCall]
  /\ issued = 0
  /\ lastNested = NoNested
  /\ firstRet = EmptyMap
  /\ firstStored = EmptyMap
  /\ retrieved = NoRetrieved
  /\ viteHook = NoViteHook

FreshResolver ==
  /\ world = WorldA
  /\ NewDenoResolver

Init ==
  /\ NoResolver
  /\ FreshResolver
  /\ codec = NoCodec
  /\ walk = NoWalk
  /\ walkLog = NoWalkLog

\* History: the answer of the first completed root resolution of each id.
NoteReturn(id, v) ==
  IF ~MapHas(firstRet, id) THEN MapSet(firstRet, id, v) ELSE firstRet

\* History: what was first stored under each key.
NoteStored(old, new) ==
  [s \in DOMAIN new |-> IF s \in DOMAIN old THEN old[s] ELSE new[s]]

\* An importer-relative resolve that memoizes what it found.
ResolveNestedMemoizing(id, importerSpecifier) ==
  /\ LET r == ResolveWithImporter(modules, id, importerSpecifier)
     IN  /\ lastNested' = [id |-> id, importer |-> importerSpecifier, kind |-> r.kind,
                           value |-> r.value]
         /\ idToSpecifierCache' =
              IF r.kind = "return" /\ r.value # Null
                THEN MapSet(idToSpecifierCache, id, r.value)
                ELSE idToSpecifierCache
  /\ UNCHANGED <<world, modules, lock, calls, issued, firstRet, firstStored,
                 codec, walk, walkLog>>
  /\ UNCHANGED <<legacyVars, retrieved, viteHook>>

\* resolve(id, importerSpecifier) with an importer: it runs to its end without suspending.
ResolveNested(id, importerSpecifier) ==
  /\ LET r == ResolveWithImporter(modules, id, importerSpecifier)
     IN  lastNested' = [id |-> id, importer |-> importerSpecifier, kind |-> r.kind,
                        value |-> r.value]
  /\ UNCHANGED <<world, modules, idToSpecifierCache, lock, calls, issued, firstRet, firstStored,
               codec, walk, walkLog>>
  /\ UNCHANGED <<legacyVars, retrieved, viteHook>>

\* resolve(id, null) up to its first suspension.
ResolveRoot(c, id) ==
  /\ UNCHANGED <<legacyVars, retrieved, viteHook>>
  /\ calls[c].pc = "idle"
  /\ issued < MaxIssued
  /\ issued' = issued + 1
  /\ UNCHANGED <<world, modules, idToSpecifierCache, lastNested, firstStored, codec, walk, walkLog>>
  /\ LET cached == CachedSpecifier(idToSpecifierCache, id)
     IN  IF Truthy(cached)
           THEN /\ calls' = [calls EXCEPT ![c] =
                     [pc |-> "done", id |-> id, ret |-> cached,
                      err |-> Null, inv |-> 0,
                      memoized |-> MapHas(idToSpecifierCache, id)]]
                /\ firstRet' = NoteReturn(id, cached)
                /\ UNCHANGED lock
           ELSE IF MutexIsFree(lock)
             \* runExclusive takes the free mutex and starts the command
             THEN /\ calls' = [calls EXCEPT ![c] =
                       [pc |-> "running", id |-> id, ret |-> Null,
                        err |-> Null, inv |-> 1,
                        memoized |-> MapHas(idToSpecifierCache, id)]]
                  /\ lock' = [lock EXCEPT !.locked = TRUE]
                  /\ UNCHANGED firstRet
             ELSE /\ calls' = [calls EXCEPT ![c] =
                       [pc |-> "queued", id |-> id, ret |-> Null,
                        err |-> Null, inv |-> 0,
                        memoized |-> MapHas(idToSpecifierCache, id)]]
                  /\ lock' = [lock EXCEPT !.queue = Append(@, c)]
                  /\ UNCHANGED firstRet

\* A mutex that stays with a callback that threw.
ReleaseHolds(l) == l

\* The mutex is released: the oldest waiter, if any, takes it and starts its command.
Release(l) ==
  IF l.queue = <<>> THEN [locked |-> FALSE, queue |-> <<>>]
  ELSE [locked |-> TRUE, queue |-> Tail(l.queue)]

Granted(cs, l) ==
  IF l.queue = <<>> THEN cs
  ELSE [cs EXCEPT ![Head(l.queue)].pc = "running", ![Head(l.queue)].inv = @ + 1]

\* The command of call c exits; callDenoInfo ingests its output and resolve returns.
InvokerExit(c) ==
  /\ UNCHANGED <<legacyVars, retrieved, viteHook>>
  /\ calls[c].pc = "running"
  /\ lock' = Release(lock)
  /\ UNCHANGED <<world, issued, lastNested, codec, walk, walkLog>>
  /\ IF CommandFails(world, calls[c].id)
       THEN /\ \E e \in FailureKinds :
                 calls' = [Granted(calls, lock) EXCEPT ![c].pc = "failed", ![c].err = e]
            /\ UNCHANGED <<modules, idToSpecifierCache, firstRet, firstStored>>
       ELSE \E info \in {DenoInfo(world, calls[c].id)} :
            \E mods \in {IngestModules(modules, info.modules, info.redirects)} :
            LET memo == IF IngestThrows(info.modules) THEN idToSpecifierCache
                        ELSE MapSet(idToSpecifierCache, calls[c].id, RootSpecifier(info))
                specifier == MapGet(memo, calls[c].id)
            IN  /\ modules' = mods
                /\ idToSpecifierCache' = memo
                /\ firstStored' = NoteStored(firstStored, mods)
                /\ IF IngestThrows(info.modules)
                     THEN /\ calls' = [Granted(calls, lock) EXCEPT ![c].pc = "failed",
                                                                   ![c].err = "TypeError"]
                          /\ UNCHANGED firstRet
                   ELSE IF Truthy(specifier)
                     THEN /\ calls' = [Granted(calls, lock) EXCEPT ![c].pc = "done",
                                                                   ![c].ret = specifier]
                          /\ firstRet' = NoteReturn(calls[c].id, specifier)
                     ELSE /\ calls' = [Granted(calls, lock) EXCEPT ![c].pc = "failed",
                                                                   ![c].err = "Failed to resolve"]
                          /\ UNCHANGED firstRet

\* The caller takes the outcome of a settled call; the slot is free again.
Settle(c) ==
  /\ UNCHANGED <<legacyVars, retrieved, viteHook>>
  /\ calls[c].pc \in {"done", "failed"}
  /\ calls' = [calls EXCEPT ![c] = IdleCall]
  /\ UNCHANGED <<world, modules, idToSpecifierCache, lock, issued, lastNested, firstRet,
               firstStored, codec, walk, walkLog>>

\* A source file is edited between two runs of the command.
Edit ==
  /\ UNCHANGED <<legacyVars, retrieved, viteHook>>
  /\ world = WorldA
  /\ world' = WorldB
  /\ UNCHANGED <<modules, idToSpecifierCache, lock, calls, issued, lastNested, firstRet,
               firstStored, codec, walk, walkLog>>

Next ==
  \/ \E c \in CallIds, id \in RootIds : ResolveRoot(c, id)
  \/ \E id \in NestedIds, imp \in Importers : ResolveNested(id, imp)
  \/ \E c \in CallIds : InvokerExit(c)
  \/ \E c \in CallIds : Settle(c)

Spec == Init /\ [][Next]_vars

\* Root resolutions alone; every command that was started exits.
NextRoot ==
  \/ \E c \in CallIds, id \in RootIds : ResolveRoot(c, id)
  \/ \E c \in CallIds : InvokerExit(c)
  \/ \E c \in CallIds : Settle(c)

SpecRoot == Init /\ [][NextRoot]_vars /\ \A c \in CallIds : WF_vars(InvokerExit(c))

\* The same resolver on the project whose output has no entry for C.
InitPartial ==
  /\ NoResolver
  /\ world = WorldPartial
  /\ NewDenoResolver
  /\ codec = NoCodec
  /\ walk = NoWalk
  /\ walkLog = NoWalkLog

SpecPartial == InitPartial /\ [][Next]_vars

\* The same resolver on the project whose redirects form a chain.
InitChain ==
  /\ NoResolver
  /\ world = WorldChain
  /\ NewDenoResolver
  /\ codec = NoCodec
  /\ walk = NoWalk
  /\ walkLog = NoWalkLog

SpecChain == InitChain /\ [][Next]_vars

\* The same resolver on the project with a type-only import.
InitTypeOnly ==
  /\ NoResolver
  /\ world = WorldTypeOnly
  /\ NewDenoResolver
  /\ codec = NoCodec
  /\ walk = NoWalk
  /\ walkLog = NoWalkLog

SpecTypeOnly == InitTypeOnly /\ [][Next]_vars

\* The same resolver while the project's files change.
NextEdit == Next \/ Edit

SpecEdit == Init /\ [][NextEdit]_vars

(***************************************************************************)
(* DenoResolver.collectDeps.  `walk.stack` holds the invocations of walk    *)
(* that are in their dependency loop, `walk.arg` the specifier of the       *)
(* invocation that is starting.                                             *)
(***************************************************************************)
MaxCollects == 2

Entries == {"A", "B", "m", "bad", "E", "npm:/p"}

SeenHasNever(seen, spec) == FALSE
SeenHas(seen, spec) == \E i \in DOMAIN seen : seen[i] = spec

Count(m, k) == IF k \in DOMAIN m THEN m[k] ELSE 0

\* walk(spec) after the module is known to be resolved: return, or enter the loop over
\* the module's dependencies.
Expand(w, mods, spec) ==
  IF ~MapHas(mods, spec) THEN [w EXCEPT !.pc = "loop"]
  ELSE IF ~IsEsm(mods[spec]) THEN [w EXCEPT !.pc = "loop"]
  ELSE [w EXCEPT !.pc = "loop",
                 !.stack = Append(@, [spec |-> spec, deps |-> mods[spec].dependencies, i |-> 1])]

Expanded(w, mods, spec, log) ==
  IF MapHas(mods, spec) /\ IsEsm(mods[spec])
    THEN [log EXCEPT !.expanded = MapSet(@, spec, Count(@, spec) + 1)]
    ELSE log

\* walk's `catch { return }` around resolve(spec, null).
WalkCatchRethrow(w) == [w EXCEPT !.pc = "rejected", !.stack = <<>>]
\* The catch that takes a specifier it could not resolve out of the seen set.
WalkCatchForgets(w) == [w EXCEPT !.pc = "loop", !.seen = SubSeq(@, 1, Len(@) - 1)]

WalkCatch(w) == [w EXCEPT !.pc = "loop"]

InitCollect ==
  /\ NoResolver
  /\ FreshResolver
  /\ codec = NoCodec
  /\ walk = NoWalk
  /\ walkLog = NoWalkLog

\* collectDeps(entry): a new seen set, then walk(entry).
CollectDeps(entry) ==
  /\ UNCHANGED legacyVars
  /\ walk.pc = "idle"
  /\ walkLog.runs < MaxCollects
  /\ walk' = [pc |-> "call", entry |-> entry, arg |-> entry, seen |-> <<>>, stack |-> <<>>]
  /\ walkLog' = [walkLog EXCEPT !.runs = @ + 1, !.expanded = EmptyMap]
  /\ UNCHANGED <<resolverVars, codec>>

\* walk(spec) from its first line to its return, to its dependency loop, or to the
\* command that resolve(spec, null) starts.
WalkCall ==
  /\ UNCHANGED <<legacyVars, retrieved, viteHook>>
  /\ walk.pc = "call"
  /\ UNCHANGED <<world, modules, idToSpecifierCache, calls, issued, lastNested, firstRet,
                 firstStored, codec>>
  /\ IF SeenHas(walk.seen, walk.arg)
       THEN /\ walk' = [walk EXCEPT !.pc = "loop"]
            /\ UNCHANGED <<lock, walkLog>>
       ELSE LET w == [walk EXCEPT !.seen = Append(@, walk.arg)]
            IN  IF MapHas(modules, walk.arg)
                  \/ Truthy(CachedSpecifier(idToSpecifierCache, walk.arg))
                  THEN /\ walk' = Expand(w, modules, walk.arg)
                       /\ walkLog' = Expanded(w, modules, walk.arg, walkLog)
                       /\ UNCHANGED lock
                  ELSE /\ MutexIsFree(lock)
                       /\ lock' = [lock EXCEPT !.locked = TRUE]
                       /\ walk' = [w EXCEPT !.pc = "resolving"]
                       /\ UNCHANGED walkLog

\* The command that walk's resolve(spec, null) started exits: ingestion, or the catch.
WalkInvokerExit ==
  /\ UNCHANGED <<legacyVars, retrieved, viteHook>>
  /\ walk.pc = "resolving"
  /\ lock' = Release(lock)
  /\ UNCHANGED <<world, calls, issued, lastNested, firstRet, codec>>
  /\ IF CommandFails(world, walk.arg)
       THEN /\ walk' = WalkCatch(walk)
            /\ UNCHANGED <<modules, idToSpecifierCache, firstStored, walkLog>>
       ELSE \E info \in {DenoInfo(world, walk.arg)} :
            \E mods \in {IngestModules(modules, info.modules, info.redirects)} :
            LET memo == IF IngestThrows(info.modules) THEN idToSpecifierCache
                        ELSE MapSet(idToSpecifierCache, walk.arg, RootSpecifier(info))
            IN  /\ modules' = mods
                /\ idToSpecifierCache' = memo
                /\ firstStored' = NoteStored(firstStored, mods)
                /\ IF ~IngestThrows(info.modules) /\ Truthy(MapGet(memo, walk.arg))
                     THEN /\ walk' = Expand(walk, mods, walk.arg)
                          /\ walkLog' = Expanded(walk, mods, walk.arg, walkLog)
                     ELSE /\ walk' = WalkCatch(walk)
                          /\ UNCHANGED walkLog

\* The dependency loop of the innermost walk: the next dependency, or the return; when
\* the outermost walk has returned, collectDeps returns Array.from(seen).
WalkLoop ==
  /\ UNCHANGED legacyVars
  /\ walk.pc = "loop"
  /\ UNCHANGED <<resolverVars, codec>>
  /\ IF walk.stack = <<>>
       THEN /\ walk' = [walk EXCEPT !.pc = "returned"]
            /\ UNCHANGED walkLog
       ELSE LET n == Len(walk.stack)
                top == walk.stack[n]
            IN  /\ UNCHANGED walkLog
                /\ IF top.i > Len(top.deps)
                     THEN walk' = [walk EXCEPT !.stack = SubSeq(@, 1, n - 1)]
                     ELSE walk' = [walk EXCEPT !.pc = "call",
                                               !.arg = top.deps[top.i].specifier,
                                               !.stack[n].i = @ + 1]

\* The caller takes the array.
CollectReturn ==
  /\ UNCHANGED legacyVars
  /\ walk.pc = "returned"
  /\ walk' = NoWalk
  /\ walkLog' = [walkLog EXCEPT !.first =
                   IF MapHas(@, walk.entry) THEN @
                   ELSE MapSet(@, walk.entry, {walk.seen[i] : i \in DOMAIN walk.seen})]
  /\ UNCHANGED <<resolverVars, codec>>

NextCollect ==
  \/ \E entry \in Entries : CollectDeps(entry)
  \/ WalkCall
  \/ WalkInvokerExit
  \/ WalkLoop
  \/ CollectReturn

\* retrieveModule(specifier)
RetrieveModuleLenient(mods, specifier) ==
  IF ~MapHas(mods, specifier)
    THEN Return([specifier |-> specifier, error |-> "Module not found"])
    ELSE Return(mods[specifier])

RetrieveModuleResult(mods, specifier) ==
  IF ~MapHas(mods, specifier) THEN Throw("Module not found") ELSE Return(mods[specifier])

\* The specifiers handed to retrieveModule: what collectDeps returned, and others.
RetrieveArgs == Entries \cup {"C", "node:fs", "Z"}

RetrieveModule(specifier) ==
  /\ LET r == RetrieveModuleResult(modules, specifier)
     IN  retrieved' = [specifier |-> specifier, kind |-> r.kind, value |-> r.value]
  /\ UNCHANGED <<world, modules, idToSpecifierCache, lock, calls, issued, lastNested, firstRet,
                 firstStored, codec, walk, walkLog, legacyVars, viteHook>>

\* The tailwind plugin: collectDeps, and retrieveModule for what it returned.
NextRetrieve ==
  \/ NextCollect
  \/ \E specifier \in RetrieveArgs : RetrieveModule(specifier)

SpecRetrieve == InitCollect /\ [][NextRetrieve]_vars

\* collectDeps is awaited: its steps are taken as long as one is possible.
SpecCollect == InitCollect /\ [][NextCollect]_vars /\ WF_vars(NextCollect)

\* collectDeps on a project whose graph is partially broken.
InitCollectPartial ==
  /\ NoResolver
  /\ world = WorldPartial
  /\ NewDenoResolver
  /\ codec = NoCodec
  /\ walk = NoWalk
  /\ walkLog = NoWalkLog

SpecCollectPartial == InitCollectPartial /\ [][NextCollect]_vars /\ WF_vars(NextCollect)

(***************************************************************************)
(* Properties of resolve.                                                  *)
(***************************************************************************)
Running == {c \in CallIds : calls[c].pc = "running"}

\* C1: a root resolution of an id the memo does not hold yet runs the command exactly
\* once; every later resolve(id, null) of that id runs it zero times and returns what
\* the first completed resolution of the id returned.
C1_MemoizedAfterFirst ==
  \A c \in CallIds :
    calls[c].pc = "done" =>
      /\ ~calls[c].memoized => calls[c].inv = 1
      /\ calls[c].memoized =>
           /\ calls[c].inv = 0
           /\ MapHas(firstRet, calls[c].id)
           /\ calls[c].ret = firstRet[calls[c].id]

C1_Witness ==
  \E c \in CallIds :
    /\ calls[c].pc = "done" /\ calls[c].memoized /\ calls[c].id = "m"
    /\ calls[c].inv = 0 /\ calls[c].ret = "C" /\ firstRet["m"] = "C"

\* C2: at every instant at most one run of the inspection command is in flight.
C2_OneInvokerInFlight == Cardinality(Running) <= 1

C2_Witness ==
  \E c, d \in CallIds : calls[c].pc = "running" /\ calls[d].pc = "queued"

\* C3: two root resolutions of the same id, both issued while the memo did not hold
\* it, run the command once in total and return the same specifier.
C3_SingleInvocation ==
  \A c, d \in CallIds :
    ( /\ c # d
      /\ calls[c].pc = "done" /\ calls[d].pc = "done"
      /\ calls[c].id = calls[d].id
      /\ ~calls[c].memoized /\ ~calls[d].memoized )
    => /\ calls[c].inv + calls[d].inv = 1
       /\ calls[c].ret = calls[d].ret

HasDepFor(module, id) ==
  \E i \in DOMAIN module.dependencies : module.dependencies[i].relativePath = id

FirstMatch(module, id) ==
  LET i == CHOOSE k \in DOMAIN module.dependencies :
             /\ module.dependencies[k].relativePath = id
             /\ \A j \in 1..(k - 1) : module.dependencies[j].relativePath # id
  IN  module.dependencies[i].specifier

CachedEsm(s) == MapHas(modules, s) /\ ~HasError(modules[s]) /\ modules[s].kind = "esm"

NoInvokerStep == calls' = calls /\ lock' = lock

\* C4: when the importer's cached record is an ESM record with a dependency whose
\* relativePath is id, resolve(id, importer) returns the specifier of the first such
\* dependency and runs no command.
C4_NestedReturnsFirstDep ==
  [][\A id \in NestedIds, imp \in Importers :
       (ResolveNested(id, imp) /\ CachedEsm(imp) /\ HasDepFor(modules[imp], id))
         => /\ lastNested'.kind = "return"
            /\ lastNested'.value = FirstMatch(modules[imp], id)
            /\ NoInvokerStep]_vars

C4_Witness ==
  /\ lastNested = [id |-> "./a", importer |-> "B", kind |-> "return", value |-> "A"]
  /\ CachedEsm("B")
  /\ Cardinality({i \in DOMAIN modules["B"].dependencies :
                    modules["B"].dependencies[i].relativePath = "./a"}) = 2

\* C5: when the importer's cached record is an ESM record without a dependency whose
\* relativePath is id, resolve(id, importer) returns null, does not throw and runs no
\* command, also for an id that resolves as a root.
C5_NestedMissReturnsNull ==
  [][\A id \in NestedIds, imp \in Importers :
       (ResolveNested(id, imp) /\ CachedEsm(imp) /\ ~HasDepFor(modules[imp], id))
         => /\ lastNested'.kind = "return"
            /\ lastNested'.value = Null
            /\ NoInvokerStep
            /\ modules' = modules /\ idToSpecifierCache' = idToSpecifierCache]_vars

C5_Witness ==
  /\ lastNested = [id |-> "A", importer |-> "A", kind |-> "return", value |-> Null]
  /\ CachedEsm("A")
  /\ MapGet(idToSpecifierCache, "A") = "A"

\* C6: resolve(id, importer) throws when the importer has no cached record or its
\* record is an npm, node or error record; no command runs and no map changes.
C6_NestedBadImporterThrows ==
  [][\A id \in NestedIds, imp \in Importers :
       (ResolveNested(id, imp) /\ ~CachedEsm(imp))
         => /\ lastNested'.kind = "throw"
            /\ NoInvokerStep
            /\ modules' = modules /\ idToSpecifierCache' = idToSpecifierCache]_vars

C6_Witness ==
  /\ lastNested.kind = "throw"
  /\ lastNested.importer \in {"npm:/p", "node:fs", "E"}
  /\ MapHas(modules, "npm:/p") /\ MapHas(modules, "node:fs") /\ MapHas(modules, "E")
  /\ ~MapHas(modules, "Z")

\* C15: when the command exits nonzero or prints text that is not JSON, resolve(id, null)
\* throws to its caller after that one run of the command, and neither a memo entry for
\* id nor a module record has been added.
C15_FailedStep ==
  \A c \in CallIds :
    (calls[c].pc = "running" /\ calls'[c].pc # "running" /\ calls[c].id \in world.fail)
      => /\ calls'[c].pc = "failed"
         /\ calls'[c].err \in FailureKinds
         /\ calls'[c].inv = 1
         /\ modules' = modules
         /\ idToSpecifierCache' = idToSpecifierCache
         /\ ~MapHas(idToSpecifierCache', calls[c].id)

C15_FailureSurfaced == [][C15_FailedStep]_vars

C15_Witness ==
  \E c \in CallIds :
    /\ calls[c].pc = "failed" /\ calls[c].id = "bad" /\ calls[c].err = "SyntaxError"
    /\ calls[c].inv = 1 /\ calls[c].ret = Null
    /\ DOMAIN idToSpecifierCache = {"A"}
    /\ ~MapHas(modules, "bad")

\* C16: a specifier that resolve(id, null) returned has a module record, so that
\* retrieveModule accepts it; without a record for the canonical specifier resolve fails.
C16_ReturnedIsStored ==
  \A c \in CallIds : calls[c].pc = "done" => MapHas(modules, calls[c].ret)

\* C18: retrieveModule(c) throws exactly when no record is stored under c and otherwise
\* returns the stored record; it runs no command and changes no map.
C18_Step ==
  retrieved' # retrieved =>
    LET c == retrieved'.specifier
    IN  /\ retrieved'.kind = "throw" <=> ~MapHas(modules, c)
        /\ MapHas(modules, c) => (retrieved'.kind = "return" /\ retrieved'.value = modules[c])
        /\ modules' = modules /\ idToSpecifierCache' = idToSpecifierCache
        /\ lock' = lock /\ walk' = walk

C18_RetrieveModule == [][C18_Step]_vars

C18_Witness ==
  /\ retrieved.specifier = "m" /\ retrieved.kind = "throw"
  /\ MapGet(idToSpecifierCache, "m") = "C"
  /\ MapHas(modules, "C") /\ ~MapHas(modules, "m")

\* C19: no step removes a key from the module map or from the memo, and no step changes
\* the specifier a memo entry maps to.
C19_Step ==
  /\ DOMAIN modules \subseteq DOMAIN modules'
  /\ \A id \in DOMAIN idToSpecifierCache :
       MapHas(idToSpecifierCache', id) /\ idToSpecifierCache'[id] = idToSpecifierCache[id]

C19_CacheGrows == [][C19_Step]_vars

C19_Witness ==
  /\ DOMAIN idToSpecifierCache = {"m", "A"}
  /\ DOMAIN modules = {"A", "B", "C", "npm:/p", "node:fs", "E"}
  /\ \E c \in CallIds : calls[c].pc = "failed" /\ calls[c].id = "bad"
  /\ \E c \in CallIds : calls[c].pc = "done" /\ calls[c].id = "A" /\ ~calls[c].memoized

\* The specifiers of the entries of the snapshot that `deno info id` printed.
SnapshotSpecifiers(id) ==
  {DenoInfo(world, id).modules[i].specifier : i \in DOMAIN DenoInfo(world, id).modules}

\* C21: whenever the memo holds id, at any point of any interleaving of resolve calls,
\* a record is stored under the specifier of every entry of the snapshot that produced
\* the memo entry.
C21_NoTornReads ==
  \A id \in DOMAIN idToSpecifierCache :
    \A s \in SnapshotSpecifiers(id) : MapHas(modules, s) /\ modules[s].specifier = s

C21_Witness ==
  \E c, d \in CallIds :
    /\ calls[c].pc = "running" /\ calls[c].id = "m"
    /\ calls[d].pc = "queued"
    /\ DOMAIN idToSpecifierCache = {"A"}
    /\ Cardinality(SnapshotSpecifiers("A")) = 6
    /\ SnapshotSpecifiers("A") = DOMAIN modules

\* The record that the ingestion of the entry e of a snapshot with these redirects leaves
\* in the module map.
RewrittenAs(rec, e, redirects) ==
  IF HasError(e) \/ e.kind # "esm" THEN rec = e
  ELSE /\ DOMAIN rec = {"kind", "local", "size", "mediaType", "specifier", "dependencies"}
       /\ rec.kind = "esm" /\ rec.local = e.local /\ rec.size = e.size
       /\ rec.mediaType = e.mediaType /\ rec.specifier = e.specifier
       /\ Len(rec.dependencies) = Len(e.dependencies)
       /\ \A i \in DOMAIN e.dependencies :
            LET written == e.dependencies[i].specifier
                target == e.dependencies[i].code.specifier
            IN  rec.dependencies[i] =
                  [relativePath |-> written,
                   specifier |-> IF target \in DOMAIN redirects THEN redirects[target]
                                 ELSE target]

C26_Step ==
  \A c \in CallIds :
    (calls[c].pc = "running" /\ calls'[c].pc = "done")
      => LET info == DenoInfo(world, calls[c].id)
         IN  \A i \in DOMAIN info.modules :
               /\ MapHas(modules', info.modules[i].specifier)
               /\ RewrittenAs(modules'[info.modules[i].specifier], info.modules[i],
                              info.redirects)

\* C26: the ingestion of a snapshot stores every ESM entry with each dependency as
\* {relativePath: the written specifier, specifier: the target after the snapshot's
\* redirects}, in the order of the entry, and stores every npm, node and error entry as
\* it is, each under its own specifier.
C26_Ingestion == [][C26_Step]_vars

C26_Witness ==
  /\ MapHas(modules, "B") /\ MapHas(modules, "npm:/p") /\ MapHas(modules, "E")
  /\ modules["B"].dependencies =
       << [relativePath |-> "./a", specifier |-> "A"],
          [relativePath |-> "./a", specifier |-> "C"],
          [relativePath |-> "./e", specifier |-> "E"] >>
  /\ modules["npm:/p"] = RawModule(world, "npm:/p")
  /\ modules["E"] = [specifier |-> "E", error |-> "Module not found"]

C27_Step ==
  \A c \in CallIds :
    (calls[c].pc = "running" /\ calls'[c].pc = "done")
      => LET id == calls[c].id
             info == DenoInfo(world, id)
             root == info.roots[1]
             canonical == IF root \in DOMAIN info.redirects THEN info.redirects[root]
                          ELSE root
         IN  /\ calls'[c].ret = canonical
             /\ idToSpecifierCache' = MapSet(idToSpecifierCache, id, canonical)
             /\ DOMAIN idToSpecifierCache' \ DOMAIN idToSpecifierCache \subseteq {id}
             /\ ~calls[c].memoized /\ calls'[c].inv = 1

\* C27: a root resolution that missed the memo and whose command succeeded returns
\* redirects[roots[0]] when roots[0] is a key of the snapshot's redirects and roots[0]
\* otherwise; the memo after it is the memo before it with the requested id mapped to the
\* returned specifier, and no entry is keyed by roots[0] unless that is the requested id.
C27_RootCanonical == [][C27_Step]_vars

C27_Witness ==
  \E c \in CallIds :
    /\ calls[c].pc = "done" /\ calls[c].id = "m" /\ ~calls[c].memoized
    /\ calls[c].ret = "C"
    /\ DenoInfo(world, "m").roots = <<"jsr:c">>
    /\ idToSpecifierCache = ("m" :> "C")

\* The redirects of the snapshots that stored a record for the specifier s.
SnapshotRedirectKeys(s) ==
  UNION {DOMAIN DenoInfo(world, id).redirects :
           id \in {x \in DOMAIN idToSpecifierCache : s \in SnapshotSpecifiers(x)}}

\* C28: a specifier that resolve returned, for a root or for an import of an importer,
\* is no key of the redirects of the snapshot it came from.
C28_RedirectTerminal ==
  /\ \A c \in CallIds :
       calls[c].pc = "done" => calls[c].ret \notin DOMAIN DenoInfo(world, calls[c].id).redirects
  /\ (lastNested.kind = "return" /\ lastNested.value # Null)
       => lastNested.value \notin SnapshotRedirectKeys(lastNested.importer)

C29_Step ==
  lastNested' # lastNested =>
    /\ modules' = modules
    /\ idToSpecifierCache' = idToSpecifierCache
    /\ NoInvokerStep

\* C29: resolve(id, importer) with an importer leaves the module map and the memo as
\* they are, whether it returns a specifier, returns null or throws, and runs no command.
C29_NestedWritesNothing == [][C29_Step]_vars

C29_Witness ==
  /\ lastNested = [id |-> "./b", importer |-> "A", kind |-> "return", value |-> "B"]
  /\ DOMAIN idToSpecifierCache = {"A"}
  /\ ~MapHas(idToSpecifierCache, "./b")
  /\ \E c \in CallIds : calls[c].pc = "running"

C30_HeldByRunning == lock.locked => \E c \in CallIds : calls[c].pc = "running"

C30_FailStep ==
  \A c \in CallIds :
    (calls[c].pc = "running" /\ calls'[c].pc = "failed")
      => /\ lock.queue = <<>> => ~lock'.locked
         /\ lock.queue # <<>> =>
              /\ calls'[Head(lock.queue)].pc = "running"
              /\ lock'.queue = Tail(lock.queue)

\* C30: when the command of a root resolution fails, by its exit code or by output that
\* is not JSON, the mutex is released in the same step: it is free, or the oldest waiter
\* holds it and runs its command; the mutex is never held without a running command, and
\* every resolution that waits for it completes.
C30_LockReleasedOnFailure ==
  /\ []C30_HeldByRunning
  /\ [][C30_FailStep]_vars
  /\ \A c \in CallIds :
       (calls[c].pc \in {"queued", "running"}) ~> (calls[c].pc \in {"done", "failed"})

C30_Witness ==
  \E c, d \in CallIds :
    /\ calls[c].pc = "failed" /\ calls[c].id = "bad" /\ calls[c].err = "SyntaxError"
    /\ calls[d].pc = "done" /\ calls[d].id = "A" /\ calls[d].inv = 1
    /\ ~lock.locked
    /\ DOMAIN idToSpecifierCache = {"A"}

\* C7: an ESM record, once stored under a specifier, is never overwritten by a later
\* ingestion: the map holds the record that was first stored.
C7_FirstStoredKept ==
  \A s \in DOMAIN modules :
    (~HasError(firstStored[s]) /\ firstStored[s].kind = "esm") => modules[s] = firstStored[s]

(***************************************************************************)
(* Virtual ids.  A string is a sequence of characters.                     *)
(***************************************************************************)
MaxLen == 3
MaxFieldLen == 2

Chars == {"x", ":", "%", "2", "5"}
MediaTypes == {"TypeScript", "TSX", "JavaScript", "JSX", "Json"}

Strings(n) == UNION {[1..k -> Chars] : k \in 0..n}

NulDeno == <<"NUL", "d", "e", "n", "o">>
Sentinel == NulDeno \o <<":", ":">>

StartsWith(s, prefix) == Len(s) >= Len(prefix) /\ SubSeq(s, 1, Len(prefix)) = prefix
Slice(s, n) == SubSeq(s, n + 1, Len(s))

\* encodeURIComponent, on the characters above.
EncodeChar(ch) ==
  IF ch = ":" THEN <<"%", "3", "A">>
  ELSE IF ch = "%" THEN <<"%", "2", "5">>
  ELSE <<ch>>

RECURSIVE EncodeURIComponent(_)
EncodeURIComponent(s) ==
  IF s = <<>> THEN <<>> ELSE EncodeChar(Head(s)) \o EncodeURIComponent(Tail(s))

\* decodeURIComponent: the character a %XX escape stands for, "" when XX is no escape
\* of one character.
Unescape(hi, lo) ==
  IF hi = "3" /\ lo = "A" THEN ":"
  ELSE IF hi = "2" /\ lo = "5" THEN "%"
  ELSE IF hi = "2" /\ lo = "2" THEN "dquote"
  ELSE IF hi = "5" /\ lo = "2" THEN "R"
  ELSE IF hi = "5" /\ lo = "5" THEN "U"
  ELSE ""

\* The decoded string, or <<"URIError">> after what was decoded when s is malformed.
RECURSIVE DecodeFrom(_)
DecodeFrom(s) ==
  IF s = <<>> THEN [ok |-> TRUE, value |-> <<>>]
  ELSE IF Head(s) # "%"
    THEN LET rest == DecodeFrom(Tail(s))
         IN  [ok |-> rest.ok, value |-> <<Head(s)>> \o rest.value]
  ELSE IF Len(s) < 3 \/ Unescape(s[2], s[3]) = "" THEN [ok |-> FALSE, value |-> <<>>]
  ELSE LET rest == DecodeFrom(Slice(s, 3))
       IN  [ok |-> rest.ok, value |-> <<Unescape(s[2], s[3])>> \o rest.value]

Parsed(v) == [kind |-> "value", value |-> v]
ParsedNull == [kind |-> "null", value |-> <<>>]
ParseThrew == [kind |-> "throw", value |-> <<>>]

DecodeURIComponent(s) ==
  IF DecodeFrom(s).ok THEN Parsed(DecodeFrom(s).value) ELSE ParseThrew

\* plugins/vite-deno-resolver.ts
ToDenoSpecifier(specifier) == Sentinel \o EncodeURIComponent(specifier)

ParseDenoSpecifierTagOnly(specifier) ==
  IF ~StartsWith(specifier, NulDeno) THEN ParsedNull
  ELSE DecodeURIComponent(Slice(specifier, 7))

ParseDenoSpecifier(specifier) ==
  IF ~StartsWith(specifier, Sentinel) THEN ParsedNull
  ELSE DecodeURIComponent(Slice(specifier, 7))

\* The three-field virtual id of lib/utils.ts: `\0deno::${loader}::${id}::${resolved}`.
ToDenoSpecifier3(loader, id, resolved) ==
  NulDeno \o <<":", ":">> \o <<loader>> \o <<":", ":">> \o id \o <<":", ":">> \o resolved

\* String.prototype.split('::'): the fields between the occurrences of "::", found
\* from the left.
RECURSIVE SplitFrom(_, _)
SplitFrom(s, field) ==
  IF s = <<>> THEN <<field>>
  ELSE IF Len(s) >= 2 /\ s[1] = ":" /\ s[2] = ":"
    THEN <<field>> \o SplitFrom(Slice(s, 2), <<>>)
  ELSE SplitFrom(Tail(s), Append(field, Head(s)))

Split(s) == SplitFrom(s, <<>>)

\* const [_tag, loader, id, resolved] = spec.split('::'): a missing field is undefined.
Field(fields, i) == IF i <= Len(fields) THEN fields[i] ELSE <<Undefined>>

ParseDenoSpecifier3(spec) ==
  LET fields == Split(spec)
  IN  [loader |-> Field(fields, 2), id |-> Field(fields, 3), resolved |-> Field(fields, 4)]

\* The strings handed to parseDenoSpecifier: any string, and the strings that hold the
\* sentinel or a part of it.
Candidates(s) ==
  {s, Sentinel \o s, Tail(Sentinel) \o s, SubSeq(Sentinel, 1, 6) \o s, NulDeno \o s}

InitVirtualId ==
  /\ NoResolver
  /\ FreshResolver
  /\ codec \in {[op |-> "input", specifier |-> s] : s \in Strings(MaxLen)}
  /\ walk = NoWalk
  /\ walkLog = NoWalkLog

\* toDenoSpecifier(specifier)
EncodeVirtualId ==
  /\ UNCHANGED legacyVars
  /\ codec.op = "input"
  /\ codec' = [op |-> "encoded", specifier |-> codec.specifier,
               virtualId |-> ToDenoSpecifier(codec.specifier)]
  /\ UNCHANGED <<resolverVars, walk, walkLog>>

\* parseDenoSpecifier of a virtual id that toDenoSpecifier made
ParseVirtualId ==
  /\ UNCHANGED legacyVars
  /\ codec.op = "encoded"
  /\ codec' = [op |-> "decoded", specifier |-> codec.specifier, virtualId |-> codec.virtualId,
               parsed |-> ParseDenoSpecifier(codec.virtualId)]
  /\ UNCHANGED <<resolverVars, walk, walkLog>>

\* parseDenoSpecifier of any other string (an importer of the bundler)
ParseAnyString ==
  /\ UNCHANGED legacyVars
  /\ codec.op = "input"
  /\ \E str \in Candidates(codec.specifier) :
       codec' = [op |-> "parsed", string |-> str, parsed |-> ParseDenoSpecifier(str)]
  /\ UNCHANGED <<resolverVars, walk, walkLog>>

NextVirtualId == EncodeVirtualId \/ ParseVirtualId \/ ParseAnyString

SpecVirtualId == InitVirtualId /\ [][NextVirtualId]_vars

InitVirtualId3 ==
  /\ NoResolver
  /\ FreshResolver
  /\ codec \in {[op |-> "input", loader |-> m, id |-> c, resolved |-> l] :
                   m \in MediaTypes, c \in Strings(MaxFieldLen), l \in Strings(MaxFieldLen)}
  /\ walk = NoWalk
  /\ walkLog = NoWalkLog

\* toDenoSpecifier(loader, id, resolved)
EncodeVirtualId3 ==
  /\ UNCHANGED legacyVars
  /\ codec.op = "input"
  /\ codec' = [op |-> "encoded", loader |-> codec.loader, id |-> codec.id,
               resolved |-> codec.resolved,
               virtualId |-> ToDenoSpecifier3(codec.loader, codec.id, codec.resolved)]
  /\ UNCHANGED <<resolverVars, walk, walkLog>>

\* parseDenoSpecifier(spec)
ParseVirtualId3 ==
  /\ UNCHANGED legacyVars
  /\ codec.op = "encoded"
  /\ codec' = [op |-> "decoded", loader |-> codec.loader, id |-> codec.id,
               resolved |-> codec.resolved, virtualId |-> codec.virtualId,
               parsed |-> ParseDenoSpecifier3(codec.virtualId)]
  /\ UNCHANGED <<resolverVars, walk, walkLog>>

NextVirtualId3 == EncodeVirtualId3 \/ ParseVirtualId3

SpecVirtualId3 == InitVirtualId3 /\ [][NextVirtualId3]_vars

\* C8: parsing the virtual id made of (m, c, l) gives (m, c, l) back, also when c or l
\* holds "::" or "%".
C8_RoundTrip ==
  codec.op = "decoded" =>
    codec.parsed = [loader |-> <<codec.loader>>, id |-> codec.id, resolved |-> codec.resolved]

\* C9: parseDenoSpecifier returns null for every string that does not start with the
\* sentinel prefix, and never for a string toDenoSpecifier made.
HasSentinel(s) == Len(s) >= 7 /\ \A i \in 1..7 : s[i] = Sentinel[i]

RECURSIVE CacheClosure(_, _)
CacheClosure(frontier, acc) ==
  IF frontier = {} THEN acc
  ELSE LET new == (UNION {{modules[s].dependencies[i].specifier :
                             i \in DOMAIN modules[s].dependencies} :
                           s \in {x \in frontier : CachedEsm(x)}}) \ acc
       IN  CacheClosure(new, acc \cup new)

Collected == {walk.seen[i] : i \in DOMAIN walk.seen}

\* A specifier that names a module of the project as it is: no import-map entry, no
\* redirect, and the command does not fail on it.
Canonical(s) ==
  ImportMapped(world, s) = s /\ Redirected(world, s) = s /\ ~CommandFails(world, s)

C10_Once == \A s \in DOMAIN walkLog.expanded : walkLog.expanded[s] <= 1

C10_Exact ==
  walk.pc = "returned" =>
    /\ Collected = CacheClosure({walk.entry}, {walk.entry})
    /\ Canonical(walk.entry) => Collected = GraphFrom(world, walk.entry)
    /\ Cardinality(Collected) = Len(walk.seen)
    /\ MapHas(walkLog.first, walk.entry) => Collected = walkLog.first[walk.entry]

C11_Visited ==
  walk.pc = "returned" => Collected = CacheClosure({walk.entry}, {walk.entry})

C11_SkipsUnresolved ==
  /\ [](walk.pc # "rejected" /\ C11_Visited)
  /\ (walk.pc # "idle") ~> (walk.pc = "returned")

C11_Witness ==
  /\ walk.pc = "returned"
  /\ walk.seen = <<"A", "B", "C", "E">>
  /\ ~MapHas(modules, "C")
  /\ ~MapHas(idToSpecifierCache, "C")

(***************************************************************************)
(* npm specifiers (plugins/vite-deno-resolver.ts).                         *)
(***************************************************************************)
MaxNpmLen == 2

NameChars == {"a", "-"}
VersionChars == {"1", "@"}
PathChars == {"a", "/", "@"}

StringsOver(chars, lo, hi) == UNION {[1..k -> chars] : k \in lo..hi}

NpmPrefix == <<"n", "p", "m", ":", "/">>

\* String.prototype.split(sep) for a separator of one character.
RECURSIVE SplitOnFrom(_, _, _)
SplitOnFrom(s, sep, field) ==
  IF s = <<>> THEN <<field>>
  ELSE IF Head(s) = sep THEN <<field>> \o SplitOnFrom(Tail(s), sep, <<>>)
  ELSE SplitOnFrom(Tail(s), sep, Append(field, Head(s)))

SplitOn(s, sep) == SplitOnFrom(s, sep, <<>>)

\* Array.prototype.join(sep)
RECURSIVE Join(_, _)
Join(parts, sep) ==
  IF parts = <<>> THEN <<>>
  ELSE IF Len(parts) = 1 THEN parts[1]
  ELSE parts[1] \o <<sep>> \o Join(Tail(parts), sep)

\* part.split('@')[0]
BeforeAtKeep(part) == part
BeforeAt(part) == SplitOn(part, "@")[1]

NpmSpecifierToNpmId(specifier) ==
  LET withoutPrefix == Slice(specifier, 5)
      parts == SplitOn(withoutPrefix, "/")
  IN  IF StartsWith(parts[1], <<"@">>)
        THEN LET scopedPackage == parts[1] \o <<"/">> \o BeforeAt(parts[2])
                 pathParts == SubSeq(parts, 3, Len(parts))
             IN  IF Len(pathParts) > 0
                   THEN scopedPackage \o <<"/">> \o Join(pathParts, "/")
                   ELSE scopedPackage
        ELSE LET packageName == BeforeAt(parts[1])
                 pathParts == SubSeq(parts, 2, Len(parts))
             IN  IF Len(pathParts) > 0
                   THEN packageName \o <<"/">> \o Join(pathParts, "/")
                   ELSE packageName

\* The npm specifiers deno info prints: npm:/[@scope/]name@version[/sub/path].
NoPart == <<"none">>

NpmSpecifier(scope, name, version, sub) ==
  NpmPrefix \o (IF scope = NoPart THEN <<>> ELSE <<"@">> \o scope \o <<"/">>)
            \o name \o <<"@">> \o version
            \o (IF sub = NoPart THEN <<>> ELSE <<"/">> \o sub)

InitNpmId ==
  /\ NoResolver
  /\ FreshResolver
  /\ walk = NoWalk
  /\ walkLog = NoWalkLog
  /\ codec \in {[op |-> "npm", scope |-> sc, name |-> n, version |-> v, sub |-> sb] :
                   sc \in {NoPart} \cup StringsOver(NameChars, 1, MaxNpmLen),
                   n \in StringsOver(NameChars, 1, MaxNpmLen),
                   v \in StringsOver(VersionChars, 1, MaxNpmLen),
                   sb \in {NoPart} \cup StringsOver(PathChars, 1, MaxNpmLen)}

\* npmSpecifierToNpmId(resolved) in the resolveId hook
ToNpmId ==
  /\ UNCHANGED legacyVars
  /\ codec.op = "npm"
  /\ codec' = [op |-> "npmId", scope |-> codec.scope, name |-> codec.name,
               version |-> codec.version, sub |-> codec.sub,
               npmId |-> NpmSpecifierToNpmId(NpmSpecifier(codec.scope, codec.name,
                                                          codec.version, codec.sub))]
  /\ UNCHANGED <<resolverVars, walk, walkLog>>

NextNpmId == ToNpmId

SpecNpmId == InitNpmId /\ [][NextNpmId]_vars

\* C12: npmSpecifierToNpmId drops "npm:/" and "@version" and keeps the scope and the
\* subpath, whatever the version (an "@" in it included) and the subpath are.
C12_NpmId ==
  codec.op = "npmId" =>
    codec.npmId = (IF codec.scope = NoPart THEN <<>> ELSE <<"@">> \o codec.scope \o <<"/">>)
                  \o codec.name
                  \o (IF codec.sub = NoPart THEN <<>> ELSE <<"/">> \o codec.sub)

C12_Witness ==
  /\ codec.op = "npmId"
  /\ codec.scope = <<"a">> /\ codec.name = <<"a", "-">>
  /\ codec.version = <<"1", "@">> /\ codec.sub = <<"a", "@">>
  /\ codec.npmId = <<"@", "a", "/", "a", "-", "/", "a", "@">>

(***************************************************************************)
(* Resolver (lib/resolver.ts) with resolveDeno of lib/utils.ts.            *)
(***************************************************************************)
\* The ids of the resolveId hook, its nested imports, and the (id, resolved) pairs that
\* parseDenoSpecifier takes from the importers.
LegacyIds == {"m", "A", "bad", "E"}
NestedImports == {"./b", "jsr:c", "npm:p"}
LegacyImporters == {<<"A", "/src/a.tsx">>, <<"jsr:c", "/cache/c.js">>}

\* A module, or the lack of one (null or undefined).
Some(mod) == [some |-> TRUE, mod |-> mod]
None == [some |-> FALSE]

\* json.modules.find((m) => m.specifier === redirected)
FindModule(mods, s) ==
  LET hits == {i \in DOMAIN mods : mods[i].specifier = s}
  IN  IF hits = {} THEN None
      ELSE Some(mods[CHOOSE i \in hits : \A j \in hits : i <= j])

\* resolveDeno(id, cwd): null, or the canonical specifier and the output.
ResolveDeno(w, id) ==
  IF CommandFails(w, id) THEN [ok |-> FALSE]
  ELSE LET json == DenoInfo(w, id)
           redirected == RootSpecifier(json)
           mod == FindModule(json.modules, redirected)
       IN  IF ~mod.some \/ HasError(mod.mod) THEN [ok |-> FALSE]
           ELSE [ok |-> TRUE, specifier |-> redirected, tree |-> json]

\* The loop that writes the path index and leaves the module store alone.
RECURSIVE IngestEsmIndexOnly(_, _)
IngestEsmIndexOnly(maps, entries) ==
  IF entries = <<>> THEN maps
  ELSE LET mod == Head(entries)
       IN  IF "kind" \in DOMAIN mod /\ mod.kind = "esm" /\ ~MapHas(maps.esmModules, mod.local)
             THEN IngestEsmIndexOnly(
                    [maps EXCEPT !.codeSpecifierToPath = MapSet(@, mod.specifier, mod.local)],
                    Tail(entries))
             ELSE IngestEsmIndexOnly(maps, Tail(entries))

\* The loop of resolveId over tree.modules: an ESM entry is stored under its local path
\* unless that path is stored already.
RECURSIVE IngestEsm(_, _)
IngestEsm(maps, entries) ==
  IF entries = <<>> THEN maps
  ELSE LET mod == Head(entries)
       IN  IF "kind" \in DOMAIN mod /\ mod.kind = "esm" /\ ~MapHas(maps.esmModules, mod.local)
             THEN IngestEsm([maps EXCEPT
                               !.esmModules = MapSet(@, mod.local, mod),
                               !.codeSpecifierToPath = MapSet(@, mod.specifier, mod.local)],
                            Tail(entries))
             ELSE IngestEsm(maps, Tail(entries))

\* this.#esmModules.get(path)
GetEsm(maps, path) ==
  IF MapHas(maps.esmModules, path) THEN Some(maps.esmModules[path]) ELSE None

\* this.#esmModules.get(this.#codeSpecifierToPath.get(spec))
GetEsmOf(maps, spec) ==
  IF MapHas(maps.codeSpecifierToPath, spec)
    THEN GetEsm(maps, maps.codeSpecifierToPath[spec])
    ELSE None

\* The head of resolveId: the answer it gives without running the command, if any.
ResolveIdCachedNoUnknown(maps, id) ==
  IF MapHas(maps.idToSpecifier, id)
    THEN [hit |-> TRUE, value |-> GetEsmOf(maps, maps.idToSpecifier[id])]
  ELSE [hit |-> FALSE]

ResolveIdCached(maps, id) ==
  IF id \in maps.unknownModules THEN [hit |-> TRUE, value |-> None]
  ELSE IF MapHas(maps.idToSpecifier, id)
    THEN [hit |-> TRUE, value |-> GetEsmOf(maps, maps.idToSpecifier[id])]
  ELSE [hit |-> FALSE]

\* toDenoSpecifier(loader, id, resolved), as its three fields.
VirtualId(loader, id, resolved) ==
  [kind |-> "deno", loader |-> loader, id |-> id, resolved |-> resolved]

Returned(h, v) == [h EXCEPT !.pc = "done", !.ret = v]
Invoking(h, k, id) == [h EXCEPT !.pc = "invoking", !.k = k, !.cur = id]

\* _resolveBase after resolveId(id) gave v.
AfterBase(h, v) ==
  IF ~v.some THEN Returned(h, VNull)
  ELSE Returned(h, VirtualId(v.mod.mediaType, v.mod.specifier, v.mod.local))

\* _resolveNestedImport after the target module v of the dependency is known.
AfterTarget(h, v, specifier) ==
  IF ~v.some THEN Returned(h, VNull)
  ELSE Returned(h, VirtualId(v.mod.mediaType, specifier, v.mod.local))

\* importer.dependencies.find((d) => d.specifier === id)
FindWritten(deps, id) ==
  LET hits == {i \in DOMAIN deps : deps[i].specifier = id}
  IN  IF hits = {} THEN None
      ELSE Some(deps[CHOOSE i \in hits : \A j \in hits : i <= j])

\* _resolveNestedImport after fetchESMModule gave the importer v.
AfterImporter(h, v, maps) ==
  IF ~v.some THEN Returned(h, VNull)
  ELSE LET dep == FindWritten(v.mod.dependencies, h.id)
       IN  IF ~dep.some THEN Returned(h, VNull)
           ELSE LET specifier == dep.mod.code.specifier
                IN  IF MapHas(maps.codeSpecifierToPath, specifier)
                      THEN AfterTarget(h, GetEsmOf(maps, specifier), specifier)
                    ELSE IF ResolveIdCached(maps, specifier).hit
                      THEN AfterTarget(h, ResolveIdCached(maps, specifier).value, specifier)
                    ELSE Invoking(h, "target", specifier)

\* What follows a resolveId that returned v, by its caller h.k.
AfterResolveId(h, v, maps) ==
  IF h.k = "base" THEN AfterBase(h, v)
  ELSE IF h.k = "importer" THEN AfterImporter(h, v, maps)
  ELSE AfterTarget(h, v, h.cur)

\* The hook from the moment it holds the lock to its first wait or its return.
EnterHook(h, maps) ==
  IF h.op = "base"
    THEN IF ResolveIdCached(maps, h.id).hit
           THEN AfterBase(h, ResolveIdCached(maps, h.id).value)
           ELSE Invoking(h, "base", h.id)
  ELSE IF MapHas(maps.esmModules, h.importerPath)
    THEN AfterImporter(h, GetEsm(maps, h.importerPath), maps)
  ELSE IF ResolveIdCached(maps, h.importerId).hit
    THEN AfterImporter(h, ResolveIdCached(maps, h.importerId).value, maps)
  ELSE Invoking(h, "importer", h.importerId)

(***************************************************************************)
(* saveCache and readCache.                                                *)
(***************************************************************************)
Maps == [esmModules |-> esmModules, codeSpecifierToPath |-> codeSpecifierToPath,
         idToSpecifier |-> idToSpecifier, unknownModules |-> unknownModules]

\* JSON.stringify({esmModules: [...], codeSpecifierToPath: [...], idToSpecifier: [...]})
SaveDocument(maps) ==
  JsonText(JObject(("esmModules" :> JPairs(MapEntries(maps.esmModules)))
                   @@ ("codeSpecifierToPath" :> JPairs(MapEntries(maps.codeSpecifierToPath)))
                   @@ ("idToSpecifier" :> JPairs(MapEntries(maps.idToSpecifier)))))

\* Deno.writeTextFile(this.#cacheFile, json): the file afterwards.
WrittenNothing(file, json) == file
Written(file, json) == json

\* parsed.name
Prop(parsed, name) ==
  IF name \in DOMAIN parsed.fields THEN parsed.fields[name] ELSE JUndefined

\* new Map(x): empty for undefined and null, the entries of an array of pairs, a
\* TypeError for a value that cannot be iterated.
NewMapEmpty(x) == [ok |-> TRUE, map |-> EmptyMap]
NewMap(x) ==
  IF x.type \in {"undefined", "null"} THEN [ok |-> TRUE, map |-> EmptyMap]
  ELSE IF x.type = "pairs"
    THEN [ok |-> TRUE,
          map |-> [k \in {e[1] : e \in x.pairs} |-> (CHOOSE e \in x.pairs : e[1] = k)[2]]]
  ELSE [ok |-> FALSE, map |-> EmptyMap]

\* readCache that takes only the memo from the file.
LoadCacheMemoOnly(file, maps) ==
  IF file.kind = "missing" THEN maps
  ELSE IF ~file.parses THEN maps
  ELSE IF file.value.type # "object" THEN maps
  ELSE LET i == NewMap(Prop(file.value, "idToSpecifier"))
       IN  IF ~i.ok THEN maps ELSE [maps EXCEPT !.idToSpecifier = i.map]

\* The body of readCache: the maps when it returns.  Each assignment that is reached
\* before something throws has taken place.
LoadCache(file, maps) ==
  IF file.kind = "missing" THEN maps
  ELSE IF ~file.parses THEN maps
  ELSE IF file.value.type # "object" THEN maps
  ELSE LET e == NewMap(Prop(file.value, "esmModules"))
           c == NewMap(Prop(file.value, "codeSpecifierToPath"))
           i == NewMap(Prop(file.value, "idToSpecifier"))
       IN  IF ~e.ok THEN maps
           ELSE IF ~c.ok THEN [maps EXCEPT !.esmModules = e.map]
           ELSE IF ~i.ok
             THEN [maps EXCEPT !.esmModules = e.map, !.codeSpecifierToPath = c.map]
           ELSE [maps EXCEPT !.esmModules = e.map, !.codeSpecifierToPath = c.map,
                             !.idToSpecifier = i.map]

\* The files a first session can find: none, text that is not JSON, and JSON that is
\* not the document saveCache writes.
EntryOfA == <<"/src/a.tsx", RawModule(WorldA, "A")>>

InitialFiles ==
  { Missing,
    Unparsable,
    JsonText(JNull),
    JsonText(JObject([x \in {} |-> JNull])),
    JsonText(JObject("esmModules" :> JPairs({EntryOfA}))),
    JsonText(JObject(("esmModules" :> JPairs({EntryOfA}))
                     @@ ("codeSpecifierToPath" :> JNumber)
                     @@ ("idToSpecifier" :> JPairs({<<"A", "A">>})))) }

SetMaps(maps) ==
  /\ esmModules' = maps.esmModules
  /\ codeSpecifierToPath' = maps.codeSpecifierToPath
  /\ idToSpecifier' = maps.idToSpecifier
  /\ unknownModules' = maps.unknownModules

NoMaps == [esmModules |-> EmptyMap, codeSpecifierToPath |-> EmptyMap,
           idToSpecifier |-> EmptyMap, unknownModules |-> {}]

\* configResolved: new Resolver(config.root, config.logger, cacheFile).  What the
\* earlier instances answered is kept as history.
NewResolver ==
  /\ session.phase \in {"none", "closed"}
  /\ SetMaps(NoMaps)
  /\ resolverLock' = [locked |-> FALSE, queue |-> <<>>]
  /\ hooks' = [t \in HookIds |-> IdleHook]
  /\ session' = [phase |-> "new", issued |-> session.issued, read |-> NoRead,
                 earlier |-> session.answers @@ session.earlier, answers |-> EmptyMap]
  /\ UNCHANGED <<resolverVars, codec, walk, walkLog, assets, cacheFile>>

\* configResolved: await resolver.readCache()
ReadCache ==
  /\ session.phase = "new"
  /\ LET maps == LoadCache(cacheFile, Maps)
     IN  /\ SetMaps(maps)
         /\ session' = [session EXCEPT !.phase = "serving",
                          !.read = [file |-> cacheFile, esmModules |-> maps.esmModules,
                                    codeSpecifierToPath |-> maps.codeSpecifierToPath,
                                    idToSpecifier |-> maps.idToSpecifier]]
  /\ UNCHANGED <<resolverVars, codec, walk, walkLog, assets, resolverLock, cacheFile, hooks>>

\* closeBundle: await resolver.finalize(), when the build has no hook call left.
Finalize ==
  /\ session.phase = "serving"
  /\ \A t \in HookIds : hooks[t].pc = "idle"
  /\ cacheFile' = Written(cacheFile, SaveDocument(Maps))
  /\ session' = [session EXCEPT !.phase = "closed"]
  /\ UNCHANGED <<resolverVars, codec, walk, walkLog, assets, esmModules, codeSpecifierToPath,
                 idToSpecifier, unknownModules, resolverLock, hooks>>

(***************************************************************************)
(* class Lock, and the hooks of Resolver.                                  *)
(***************************************************************************)
\* Lock.release(): the oldest waiter is resumed and the lock stays taken, or the lock
\* is free.
LockRelease(l) ==
  IF Len(l.queue) > 0 THEN [locked |-> TRUE, queue |-> Tail(l.queue)]
  ELSE [locked |-> FALSE, queue |-> <<>>]

\* release() that takes the waiter off the queue and does not call it.
ResumedNobody(hs, l) == hs

\* release() that resumes the newest waiter.
ResumedNewest(hs, l) ==
  IF Len(l.queue) > 0 THEN [hs EXCEPT ![l.queue[Len(l.queue)]].pc = "granted"] ELSE hs

\* The waiter that release() resumes.
Resumed(hs, l) ==
  IF Len(l.queue) > 0 THEN [hs EXCEPT ![Head(l.queue)].pc = "granted"] ELSE hs

\* `await this.#lock.acquire()` of a new hook call h, in the first slot t that is free.
Acquire(t, h) ==
  /\ session.phase = "serving"
  /\ hooks[t].pc = "idle"
  /\ \A u \in 1..(t - 1) : hooks[u].pc # "idle"
  /\ session.issued < MaxHookCalls
  /\ session' = [session EXCEPT !.issued = @ + 1]
  /\ IF ~resolverLock.locked
       THEN /\ resolverLock' = [resolverLock EXCEPT !.locked = TRUE]
            /\ hooks' = [hooks EXCEPT ![t] = [h EXCEPT !.pc = "granted"]]
       ELSE /\ resolverLock' = [resolverLock EXCEPT !.queue = Append(@, t)]
            /\ hooks' = [hooks EXCEPT ![t] = [h EXCEPT !.pc = "queued"]]
  /\ UNCHANGED <<resolverVars, codec, walk, walkLog, assets, esmModules, codeSpecifierToPath,
                 idToSpecifier, unknownModules, cacheFile>>

\* resolveId hook: resolver.resolveBase(id)
ResolveBase(t, id) ==
  Acquire(t, [IdleHook EXCEPT !.op = "base", !.id = id,
                              !.wasUnknown = id \in unknownModules,
                              !.wasMemoized = MapHas(idToSpecifier, id)])

\* resolveId hook: resolver.resolveNestedImport(id, importerId, importerPath)
ResolveNestedImport(t, id, importer) ==
  Acquire(t, [IdleHook EXCEPT !.op = "nested", !.id = id, !.importerId = importer[1],
                              !.importerPath = importer[2]])

\* The hook in slot t goes on as h: when it has returned, the `finally` has released
\* the lock.
Proceed(t, h) ==
  IF h.pc = "done"
    THEN /\ hooks' = [Resumed(hooks, resolverLock) EXCEPT ![t] = h]
         /\ resolverLock' = LockRelease(resolverLock)
    ELSE /\ hooks' = [hooks EXCEPT ![t] = h]
         /\ UNCHANGED resolverLock

\* The hook holds the lock and runs to its first wait or to its return.
HookEnter(t) ==
  /\ hooks[t].pc = "granted"
  /\ \E h \in {EnterHook(hooks[t], Maps)} : Proceed(t, h)
  /\ UNCHANGED <<resolverVars, codec, walk, walkLog, assets, esmModules, codeSpecifierToPath,
                 idToSpecifier, unknownModules, cacheFile, session>>

\* resolveId from the exit of its command to its next wait or its return: the id is
\* unknown, or it is memoized, the ESM entries are stored and saveCache starts writing.
AfterInvoker(h0, maps0, result) ==
  LET h == [h0 EXCEPT !.inv = @ + 1]
  IN  IF ~result.ok
        THEN LET maps == [maps0 EXCEPT !.unknownModules = @ \cup {h.cur}]
             IN  [h |-> AfterResolveId(h, None, maps), maps |-> maps]
        ELSE LET maps == IngestEsm([maps0 EXCEPT !.idToSpecifier =
                                                   MapSet(@, h.cur, result.specifier)],
                                   result.tree.modules)
             IN  [h |-> [h EXCEPT !.pc = "saving", !.added = @ \cup {h.cur},
                                  !.doc = SaveDocument(maps)],
                  maps |-> maps]

\* resolveId after `await this.saveCache()`: it returns the module of the specifier.
AfterSave(h, maps) ==
  AfterResolveId([h EXCEPT !.doc = Missing], GetEsmOf(maps, maps.idToSpecifier[h.cur]), maps)

\* What resolveDeno gives for each project and each id resolveId runs the command for:
\* the id of a hook, the id of an importer, the specifier of a dependency.
CommandIds ==
  LegacyIds \cup {imp[1] : imp \in LegacyImporters}
    \cup UNION {{WorldA.esm[s][i].code.specifier : i \in DOMAIN WorldA.esm[s]} :
                  s \in DOMAIN WorldA.esm}
CommandOutputs == [w \in {WorldA, WorldPartial}, id \in CommandIds |-> ResolveDeno(w, id)]

\* The command of the hook's resolveId exits.
HookInvokerExit(t) ==
  /\ hooks[t].pc = "invoking"
  /\ UNCHANGED <<resolverVars, codec, walk, walkLog, assets, cacheFile, session>>
  /\ \E result \in {CommandOutputs[world, hooks[t].cur]} :
     \E r \in {AfterInvoker(hooks[t], Maps, result)} :
       /\ SetMaps(r.maps)
       /\ Proceed(t, r.h)

\* The write of saveCache is done.
HookSaved(t) ==
  /\ hooks[t].pc = "saving"
  /\ cacheFile' = Written(cacheFile, hooks[t].doc)
  /\ \E h \in {AfterSave(hooks[t], Maps)} : Proceed(t, h)
  /\ UNCHANGED <<resolverVars, codec, walk, walkLog, assets, esmModules, codeSpecifierToPath,
                 idToSpecifier, unknownModules, session>>

\* The bundler takes the answer of the hook.
HookSettle(t) ==
  /\ hooks[t].pc = "done"
  /\ hooks' = [hooks EXCEPT ![t] = IdleHook]
  /\ session' = [session EXCEPT !.answers =
                   IF hooks[t].op = "base" /\ MapHas(idToSpecifier, hooks[t].id)
                      /\ ~MapHas(@, hooks[t].id)
                     THEN MapSet(@, hooks[t].id, hooks[t].ret)
                     ELSE @]
  /\ UNCHANGED <<resolverVars, codec, walk, walkLog, assets, esmModules, codeSpecifierToPath,
                 idToSpecifier, unknownModules, resolverLock, cacheFile>>

InitLegacy ==
  /\ world \in {WorldA, WorldPartial}
  /\ NewDenoResolver
  /\ codec = NoCodec
  /\ walk = NoWalk
  /\ walkLog = NoWalkLog
  /\ esmModules = EmptyMap
  /\ codeSpecifierToPath = EmptyMap
  /\ idToSpecifier = EmptyMap
  /\ unknownModules = {}
  /\ resolverLock = [locked |-> FALSE, queue |-> <<>>]
  /\ cacheFile \in InitialFiles
  /\ hooks = [t \in HookIds |-> IdleHook]
  /\ session = NoSession
  /\ assets = NoAssets

NextLegacy ==
  \/ NewResolver
  \/ ReadCache
  \/ \E t \in HookIds, id \in LegacyIds : ResolveBase(t, id)
  \/ \E t \in HookIds, id \in NestedImports, imp \in LegacyImporters :
       ResolveNestedImport(t, id, imp)
  \/ \E t \in HookIds : HookEnter(t)
  \/ \E t \in HookIds : HookInvokerExit(t)
  \/ \E t \in HookIds : HookSaved(t)
  \/ \E t \in HookIds : HookSettle(t)
  \/ Finalize

SpecLegacy == InitLegacy /\ [][NextLegacy]_vars

\* The first build of a project: there is no cache file yet, and every later file is one
\* that saveCache wrote.
InitNoCacheFile ==
  /\ world \in {WorldA, WorldPartial}
  /\ NewDenoResolver
  /\ codec = NoCodec
  /\ walk = NoWalk
  /\ walkLog = NoWalkLog
  /\ NoResolver

SpecNoCacheFile == InitNoCacheFile /\ [][NextLegacy]_vars

(***************************************************************************)
(* Properties of Resolver and its cache file.                              *)
(***************************************************************************)
\* C13: after the maps were saved, a new Resolver that reads the cache file gives, for
\* every id an earlier instance had memoized, the answer the earlier instance gave, and
\* runs no command for it.
C13_PersistenceRoundTrip ==
  \A t \in HookIds :
    (hooks[t].pc = "done" /\ hooks[t].op = "base" /\ MapHas(session.earlier, hooks[t].id))
      => /\ hooks[t].ret = session.earlier[hooks[t].id]
         /\ hooks[t].inv = 0

C13_Witness ==
  \E t \in HookIds :
    /\ hooks[t].pc = "done" /\ hooks[t].op = "base" /\ hooks[t].id = "m"
    /\ MapHas(session.earlier, "m")
    /\ hooks[t].ret = VirtualId("JavaScript", "C", "/cache/c.js")
    /\ hooks[t].inv = 0
    /\ session.read.file = SaveDocument(Maps)

\* The document saveCache writes: an object whose three properties are arrays of pairs.
WellShaped(v) ==
  /\ v.type = "object"
  /\ \A name \in {"esmModules", "codeSpecifierToPath", "idToSpecifier"} :
       name \in DOMAIN v.fields /\ v.fields[name].type = "pairs"

Unusable(file) ==
  \/ file.kind = "missing"
  \/ file.kind = "text" /\ ~file.parses
  \/ file.kind = "text" /\ file.parses /\ ~WellShaped(file.value)

\* C14: when the cache file is missing, is not JSON, or is JSON of another shape,
\* readCache leaves the three maps of the new Resolver empty.
C14_BadFileIsColdStart ==
  Unusable(session.read.file) =>
    /\ session.read.esmModules = EmptyMap
    /\ session.read.codeSpecifierToPath = EmptyMap
    /\ session.read.idToSpecifier = EmptyMap

\* C17: an id whose root resolution failed (the command failed, or the root module is
\* missing or an error entry) is in unknownModules until the Resolver is discarded, and
\* a resolveBase of an id that is in unknownModules returns null and runs no command.
C17_UnknownAnswered ==
  \A t \in HookIds :
    (hooks[t].pc = "done" /\ hooks[t].op = "base" /\ hooks[t].wasUnknown)
      => hooks[t].ret = VNull /\ hooks[t].inv = 0

C17_UnknownKept ==
  /\ session'.phase # "new" => unknownModules \subseteq unknownModules'
  /\ \A t \in HookIds :
       (hooks[t].pc = "invoking" /\ hooks'[t].inv = hooks[t].inv + 1
        /\ ~ResolveDeno(world, hooks[t].cur).ok)
         => hooks[t].cur \in unknownModules'

C20_SavedAtReturn ==
  /\ \A t \in HookIds :
       (hooks[t].pc # "done" /\ hooks'[t].pc = "done" /\ hooks'[t].added # {})
         => /\ cacheFile' = SaveDocument(Maps')
            /\ \A id \in hooks'[t].added :
                 <<id, idToSpecifier'[id]>> \in cacheFile'.value.fields["idToSpecifier"].pairs
  /\ (session.phase = "serving" /\ session'.phase = "closed")
       => cacheFile' = SaveDocument(Maps')

C20_SaveAwaited == [][C20_SavedAtReturn]_vars

C20_Witness ==
  \E t \in HookIds :
    /\ hooks[t].pc = "done" /\ hooks[t].op = "nested"
    /\ hooks[t].added = {"A", "jsr:c"}
    /\ hooks[t].ret = VirtualId("JavaScript", "jsr:c", "/cache/c.js")
    /\ cacheFile = SaveDocument(Maps)
    /\ <<"jsr:c", "C">> \in cacheFile.value.fields["idToSpecifier"].pairs

\* A hook call made on a Resolver with empty maps, run to its return.
RECURSIVE RunHook(_, _)
RunHook(h, maps) ==
  IF h.pc = "done" THEN h
  ELSE IF h.pc = "granted" THEN RunHook(EnterHook(h, maps), maps)
  ELSE IF h.pc = "invoking"
    THEN RunHook(AfterInvoker(h, maps, ResolveDeno(world, h.cur)).h,
                 AfterInvoker(h, maps, ResolveDeno(world, h.cur)).maps)
  ELSE RunHook(AfterSave(h, maps), maps)

ColdRun(h) ==
  RunHook([IdleHook EXCEPT !.pc = "granted", !.op = h.op, !.id = h.id,
                           !.importerId = h.importerId, !.importerPath = h.importerPath],
          NoMaps)

\* The session has read a file that saveCache wrote.
LoadedSavedCache ==
  /\ session.phase = "serving"
  /\ session.read.file.kind = "text"
  /\ session.read.file.parses
  /\ WellShaped(session.read.file.value)

\* C22: every hook call, on a Resolver that read a cache file written by saveCache as on
\* one that found no file, returns what the same call returns on a Resolver with empty
\* maps, and runs the command at most as often.
C22_CacheIsAdvisory ==
  \A t \in HookIds :
    hooks[t].pc = "done" =>
      /\ hooks[t].ret = ColdRun(hooks[t]).ret
      /\ hooks[t].inv <= ColdRun(hooks[t]).inv

C22_Witness ==
  \E t \in HookIds :
    /\ LoadedSavedCache
    /\ session.read.idToSpecifier = ("m" :> "C")
    /\ hooks[t].pc = "done" /\ hooks[t].op = "base" /\ hooks[t].id = "m"
    /\ hooks[t].inv = 0 /\ ColdRun(hooks[t]).inv = 1
    /\ hooks[t].ret = VirtualId("JavaScript", "C", "/cache/c.js")

(***************************************************************************)
(* The resolveId hook of the plugin (plugins/vite-deno-resolver.ts), from  *)
(* the point where the importer's specifier is known.                      *)
(***************************************************************************)
\* The ids the bundler hands to the hook, and the specifiers of its importers.
ViteRootIds == {"A", "E"}
ViteNested == {<<"./a", "B">>, <<"./e", "B">>, <<"npm:p", "C">>, <<"node:fs", "C">>,
               <<"./a", "E">>}

\* invalidPrefixes.some((prefix) => id.startsWith(prefix))
InvalidPrefixIds == {"./a", "/src/a.tsx", "virtual:x"}

\* options?.ssr || isDefaultSSR, and isDev: "ssrBuild" is an SSR build, "plain" any other
\* call.  ssrExternals holds exact ids.
Modes == {"plain", "ssrBuild"}
SsrExternals == {"A", "./a"}

HookNull(id, importerSpecifier) ==
  [id |-> id, importer |-> importerSpecifier, target |-> Null, kind |-> "null", value |-> <<>>,
   external |-> FALSE]

HookThrow(id, importerSpecifier, target, message, name) ==
  [id |-> id, importer |-> importerSpecifier, target |-> target, kind |-> "throw",
   value |-> <<message, name>>, external |-> FALSE]

\* The hook after `await resolver.resolve(id, importerSpecifier || null)` gave target.
AfterResolveErrorIsNull(mods, id, importerSpecifier, target, mode) ==
  HookNull(id, importerSpecifier)

AfterResolve(mods, id, importerSpecifier, target, mode) ==
  IF ~Truthy(target) \/ target = Null THEN HookNull(id, importerSpecifier)
  ELSE LET targetModule == RetrieveModuleResult(mods, target)
       IN  IF targetModule.kind = "throw"
             THEN HookThrow(id, importerSpecifier, target, targetModule.value, target)
           ELSE IF HasError(targetModule.value)
             THEN HookThrow(id, importerSpecifier, target, "Failed to resolve", id)
           ELSE IF targetModule.value.kind = "npm"
             \* this.resolve(npmSpecifierToNpmId(targetModule.specifier), importer, ...)
             THEN [id |-> id, importer |-> importerSpecifier, target |-> target,
                   kind |-> "npm", value |-> <<targetModule.value.specifier>>,
                   external |-> FALSE]
           ELSE IF targetModule.value.kind = "node"
             THEN [id |-> id, importer |-> importerSpecifier, target |-> target,
                   kind |-> "node", value |-> <<id>>, external |-> TRUE]
           ELSE [id |-> id, importer |-> importerSpecifier, target |-> target,
                 kind |-> "deno", value |-> <<target>>,
                 external |-> (mode = "ssrBuild" /\ id \in SsrExternals)]

\* resolveId(id, importer) for an importer that has a specifier.
ViteResolveIdNested(id, importerSpecifier, mode) ==
  /\ LET r == ResolveWithImporter(modules, id, importerSpecifier)
     IN  viteHook' = IF r.kind = "throw"
                       THEN HookThrow(id, importerSpecifier, Null, r.value, importerSpecifier)
                       ELSE AfterResolve(modules, id, importerSpecifier, r.value, mode)
  /\ UNCHANGED <<world, modules, idToSpecifierCache, lock, calls, issued, lastNested, firstRet,
                 firstStored, retrieved, codec, walk, walkLog, legacyVars>>

\* resolveId(id, undefined) for an id the plugin does not handle.
ViteResolveIdSkip(id) ==
  /\ viteHook' = HookNull(id, Null)
  /\ UNCHANGED <<world, modules, idToSpecifierCache, lock, calls, issued, lastNested, firstRet,
                 firstStored, retrieved, codec, walk, walkLog, legacyVars>>

\* resolveId(id, undefined) goes on after its resolver.resolve(id, null) has settled.
ViteResolveIdResume(c, mode) ==
  /\ calls[c].pc \in {"done", "failed"}
  /\ calls' = [calls EXCEPT ![c] = IdleCall]
  /\ viteHook' = IF calls[c].pc = "failed"
                   THEN HookThrow(calls[c].id, Null, Null, calls[c].err, calls[c].id)
                   ELSE AfterResolve(modules, calls[c].id, Null, calls[c].ret, mode)
  /\ UNCHANGED <<world, modules, idToSpecifierCache, lock, issued, lastNested, firstRet,
                 firstStored, retrieved, codec, walk, walkLog, legacyVars>>

NextViteHook ==
  \/ \E c \in CallIds, id \in ViteRootIds : ResolveRoot(c, id)
  \/ \E c \in CallIds : InvokerExit(c)
  \/ \E c \in CallIds, mode \in Modes : ViteResolveIdResume(c, mode)
  \/ \E id \in InvalidPrefixIds : ViteResolveIdSkip(id)
  \/ \E n \in ViteNested, mode \in Modes : ViteResolveIdNested(n[1], n[2], mode)

SpecViteHook == Init /\ [][NextViteHook]_vars

ErrorRecord(mods, target) == target # Null /\ MapHas(mods, target) /\ HasError(mods[target])

C23_Step ==
  /\ \A c \in CallIds, mode \in Modes :
       (calls[c].pc = "done" /\ ErrorRecord(modules, calls[c].ret)
        /\ ViteResolveIdResume(c, mode))
         => /\ viteHook'.kind = "throw"
            /\ viteHook'.value = <<"Failed to resolve", calls[c].id>>
  /\ \A n \in ViteNested, mode \in Modes :
       (ResolveWithImporter(modules, n[1], n[2]).kind = "return"
        /\ ErrorRecord(modules, ResolveWithImporter(modules, n[1], n[2]).value)
        /\ ViteResolveIdNested(n[1], n[2], mode))
         => /\ viteHook'.kind = "throw"
            /\ viteHook'.value = <<"Failed to resolve", n[1]>>

\* C23: when resolve gives the hook a specifier whose stored record is an error record,
\* the hook throws an error whose message names the id it was asked for; it returns
\* neither null nor a virtual id.
C23_ErrorRecordThrows == [][C23_Step]_vars

C23_Witness ==
  /\ viteHook = HookThrow("./e", "B", "E", "Failed to resolve", "./e")
  /\ HasError(modules["E"])

(***************************************************************************)
(* shouldHandleId (plugins/ssr-dev-plugin.ts).                             *)
(***************************************************************************)
MaxIdLen == 3
MaxDeps == 2

DepChars == {"a", "/", "*"}

\* The patterns of ssrDevExternalDeps: exact names, names with a trailing slash,
\* wildcards, the lone wildcard and the empty string.
DepPatterns == {<<>>, <<"*">>, <<"a">>, <<"a", "*">>, <<"a", "/">>, <<"a", "/", "*">>,
                <<"a", "a">>}

EndsWith(s, suffix) ==
  Len(s) >= Len(suffix) /\ SubSeq(s, Len(s) - Len(suffix) + 1, Len(s)) = suffix

\* The callback of deps.some.
DepMatchesExact(dep, id) == id = dep
DepMatches(dep, id) ==
  IF EndsWith(dep, <<"*">>)
    THEN LET prefix == SubSeq(dep, 1, Len(dep) - 1)
         IN  StartsWith(id, prefix)
    ELSE id = dep \/ StartsWith(id, dep \o <<"/">>)

RECURSIVE ShouldHandleId(_, _)
ShouldHandleId(id, deps) ==
  IF deps = <<>> THEN FALSE
  ELSE IF DepMatches(Head(deps), id) THEN TRUE
  ELSE ShouldHandleId(id, Tail(deps))

InitShouldHandle ==
  /\ NoResolver
  /\ FreshResolver
  /\ walk = NoWalk
  /\ walkLog = NoWalkLog
  /\ codec \in {[op |-> "query", id |-> id, deps |-> deps] :
                   id \in StringsOver(DepChars, 0, MaxIdLen),
                   deps \in UNION {[1..k -> DepPatterns] : k \in 0..MaxDeps}}

\* shouldHandleId(id, deps) in the resolveId hook of the SSR dev plugin
HandleQuery ==
  /\ UNCHANGED legacyVars
  /\ codec.op = "query"
  /\ codec' = [op |-> "handled", id |-> codec.id, deps |-> codec.deps,
               result |-> ShouldHandleId(codec.id, codec.deps)]
  /\ UNCHANGED <<resolverVars, walk, walkLog>>

NextShouldHandle == HandleQuery

SpecShouldHandle == InitShouldHandle /\ [][NextShouldHandle]_vars

\* A pattern with a trailing "*" covers the ids that go on from what precedes the "*";
\* any other pattern covers itself and the ids that go on from it with a "/".
PatternCovers(dep, id) ==
  IF Len(dep) > 0 /\ dep[Len(dep)] = "*"
    THEN \E rest \in StringsOver(DepChars, 0, MaxIdLen) : id = SubSeq(dep, 1, Len(dep) - 1) \o rest
    ELSE \/ id = dep
         \/ \E rest \in StringsOver(DepChars, 0, MaxIdLen) : id = dep \o <<"/">> \o rest

\* C24: shouldHandleId(id, deps) is true exactly when some pattern of deps covers id;
\* it is false for empty deps.
C24_ShouldHandleId ==
  codec.op = "handled" =>
    /\ codec.result = (\E i \in DOMAIN codec.deps : PatternCovers(codec.deps[i], codec.id))
    /\ codec.deps = <<>> => codec.result = FALSE

C24_Witness ==
  /\ codec.op = "handled"
  /\ codec.id = <<"a", "/", "a">>
  /\ codec.deps = << <<"a", "a">>, <<"a">> >>
  /\ codec.result = TRUE

(***************************************************************************)
(* parseNpmSpecifier (plugins/npm-unprefix.ts).                            *)
(***************************************************************************)
NpmColon == <<"n", "p", "m", ":">>

\* The length of the longest run of characters other than ch that starts at s[from].
RECURSIVE RunLen(_, _, _)
RunLen(s, from, ch) ==
  IF from > Len(s) \/ s[from] = ch THEN 0 ELSE 1 + RunLen(s, from + 1, ch)

\* (?:@[^/]+)?(\/.*)?$ matches r.
TailMatches(r) ==
  \/ r = <<>>
  \/ r[1] = "/"
  \/ r[1] = "@" /\ Len(r) >= 2 /\ r[2] # "/"

\* What (\/.*)? captures in r: all of r when r starts with "/", else what follows the
\* version.
TailPath(r) ==
  IF r = <<>> THEN <<>>
  ELSE IF r[1] = "/" THEN r
  ELSE Slice(r, 1 + RunLen(r, 2, "/"))

\* id.match(/^npm:(@?[^@]+)(?:@[^\/]+)?(\/.*)?$/) on what follows "npm:": the first
\* group takes the longest run that lets the rest match.
MatchNpm(rest) ==
  LET at == IF rest # <<>> /\ rest[1] = "@" THEN 1 ELSE 0
      n == RunLen(rest, at + 1, "@")
      ks == {k \in 1..n : TailMatches(Slice(rest, at + k))}
  IN  IF ks = {} THEN ParsedNull
      ELSE LET k == CHOOSE x \in ks : \A y \in ks : y <= x
               packageName == SubSeq(rest, 1, at + k)
               path == TailPath(Slice(rest, at + k))
           IN  Parsed(packageName \o path)

ParseNpmSpecifier(id) ==
  IF ~StartsWith(id, NpmColon) THEN ParsedNull
  ELSE MatchNpm(Slice(id, 4))

\* The ids handed to parseNpmSpecifier: prefix, [@scope/], name, [@version], [/sub/path].
Optional(lead, part) == IF part = NoPart THEN <<>> ELSE lead \o part

NpmId(prefix, scope, name, version, sub) ==
  prefix \o (IF scope = NoPart THEN <<>> ELSE <<"@">> \o scope \o <<"/">>)
         \o name \o Optional(<<"@">>, version) \o Optional(<<"/">>, sub)

InitNpmUnprefix ==
  /\ NoResolver
  /\ FreshResolver
  /\ walk = NoWalk
  /\ walkLog = NoWalkLog
  /\ codec \in
       {[op |-> "npmUrl", prefix |-> px, scope |-> sc, name |-> n, version |-> v, sub |-> sb] :
          px \in {NpmColon, <<>>},
          sc \in {NoPart} \cup StringsOver({"a"}, 1, MaxNpmLen),
          n \in StringsOver(NameChars, 1, MaxNpmLen),
          v \in {NoPart} \cup StringsOver(VersionChars, 1, MaxNpmLen),
          sb \in {NoPart} \cup StringsOver(PathChars, 1, MaxNpmLen)}
       \cup {[op |-> "npmUrl", prefix |-> NpmColon, scope |-> NoPart, name |-> <<>>,
              version |-> NoPart, sub |-> NoPart]}

\* parseNpmSpecifier(id) in the resolveId hook of the npm-unprefix plugin
ParseNpmUrl ==
  /\ UNCHANGED legacyVars
  /\ codec.op = "npmUrl"
  /\ codec' = [op |-> "npmParsed", prefix |-> codec.prefix, scope |-> codec.scope,
               name |-> codec.name, version |-> codec.version, sub |-> codec.sub,
               parsed |-> ParseNpmSpecifier(NpmId(codec.prefix, codec.scope, codec.name,
                                                  codec.version, codec.sub))]
  /\ UNCHANGED <<resolverVars, walk, walkLog>>

NextNpmUnprefix == ParseNpmUrl

SpecNpmUnprefix == InitNpmUnprefix /\ [][NextNpmUnprefix]_vars

\* C25: parseNpmSpecifier returns null for an id that does not start with "npm:" and
\* for "npm:" alone; for "npm:[@scope/]name[@version][/subpath]" it returns
\* "[@scope/]name[/subpath]".
C25_ParseNpmSpecifier ==
  codec.op = "npmParsed" =>
    IF codec.prefix # NpmColon \/ codec.name = <<>>
      THEN codec.parsed = ParsedNull
      ELSE codec.parsed = Parsed(NpmId(<<>>, codec.scope, codec.name, NoPart, codec.sub))

(***************************************************************************)
(* The invocation lock of both generations: whoever waits for it gets it.  *)
(***************************************************************************)
LegacyUnused == session = NoSession
RootUnused == issued = 0
WalkUnused == walk = NoWalk /\ walkLog = NoWalkLog

\* A process runs one resolver: the legacy plugin with its Resolver, or the bundler's
\* root resolutions on a DenoResolver, or collectDeps on a DenoResolver.
\* One session of the legacy plugin; its hooks ask for a module that resolves, for one
\* whose command fails, and for imports of A that are and are not stored with A.
LockIds == {"A", "bad"}
LockImports == {<<"./b", <<"A", "/src/a.tsx">> >>, <<"jsr:c", <<"A", "/src/a.tsx">> >>,
                <<"npm:p", <<"jsr:c", "/cache/c.js">> >>}

NextLegacyHooks ==
  \/ NewResolver
  \/ ReadCache
  \/ \E t \in HookIds, id \in LockIds : ResolveBase(t, id)
  \/ \E t \in HookIds, imp \in LockImports : ResolveNestedImport(t, imp[1], imp[2])
  \/ \E t \in HookIds : HookEnter(t)
  \/ \E t \in HookIds : HookInvokerExit(t)
  \/ \E t \in HookIds : HookSaved(t)
  \/ \E t \in HookIds : HookSettle(t)

NextLocks ==
  \/ RootUnused /\ WalkUnused /\ NextLegacyHooks
  \/ LegacyUnused /\ WalkUnused /\ NextRoot
  \/ LegacyUnused /\ RootUnused /\ NextCollect

\* Every command and every write of the cache file ends, and the event loop runs every
\* continuation that is ready.
FairLocks ==
  /\ \A t \in HookIds :
       WF_vars(HookEnter(t)) /\ WF_vars(HookInvokerExit(t)) /\ WF_vars(HookSaved(t))
  /\ \A c \in CallIds : WF_vars(InvokerExit(c))
  /\ WF_vars(WalkCall) /\ WF_vars(WalkInvokerExit) /\ WF_vars(WalkLoop)

SpecLocks == InitNoCacheFile /\ [][NextLocks]_vars /\ FairLocks

HoldsLock(t) == hooks[t].pc \in {"granted", "invoking", "saving"}

\* Who holds the lock does not wait for it: the queue names only calls that wait in
\* acquire(), each once, and at most one call is past acquire().
C31_HolderNeverWaits ==
  /\ \A i \in DOMAIN resolverLock.queue :
       /\ hooks[resolverLock.queue[i]].pc = "queued"
       /\ \A j \in DOMAIN resolverLock.queue : resolverLock.queue[j] = resolverLock.queue[i] => j = i
  /\ \A t \in HookIds : hooks[t].pc = "queued" =>
       \E i \in DOMAIN resolverLock.queue : resolverLock.queue[i] = t
  /\ \A t, u \in HookIds : HoldsLock(t) /\ HoldsLock(u) => t = u
  /\ (\E t \in HookIds : HoldsLock(t)) <=> resolverLock.locked
  /\ \A i \in DOMAIN lock.queue : calls[lock.queue[i]].pc = "queued"
  /\ walk.pc = "resolving" => lock.locked

\* C31: no deadlock on the invocation lock.  Given that every command and every write
\* of the cache file ends, every call of resolveBase, resolveNestedImport, resolve and
\* collectDeps completes; the code that runs while the lock is held never acquires it
\* again.
C31_NoDeadlock ==
  /\ []C31_HolderNeverWaits
  /\ \A t \in HookIds : (hooks[t].pc \in {"queued", "granted", "invoking", "saving"})
                            ~> (hooks[t].pc = "done")
  /\ \A c \in CallIds : (calls[c].pc \in {"queued", "running"})
                            ~> (calls[c].pc \in {"done", "failed"})
  /\ (walk.pc # "idle") ~> (walk.pc = "returned")

\* A hook waits in acquire() while the hook that holds the lock has run its command and
\* is writing the cache file.
C31_Witness ==
  \E t, u \in HookIds :
    /\ hooks[t].pc = "saving"
    /\ hooks[t].inv = 1
    /\ hooks[u].pc = "queued"
    /\ resolverLock = [locked |-> TRUE, queue |-> <<u>>]

(***************************************************************************)
(* What collectDeps returns, as retrieveModule sees it.                    *)
(***************************************************************************)
\* The tailwind plugin on a project whose graph is partially broken.
SpecRetrievePartial == InitCollectPartial /\ [][NextRetrieve]_vars

Retrievable(s) == RetrieveModuleResult(modules, s).kind = "return"

\* In every step of a running collectDeps, the argument of every walk(spec) is in the seen set from that
\* call on, whatever follows (a return, the catch, the dependency loop), and nothing is
\* taken out of the set.
C32_Step ==
  walk' # walk /\ walk.pc \in {"call", "resolving", "loop"} =>
    /\ walk'.entry = walk.entry
    /\ Len(walk'.seen) >= Len(walk.seen)
    /\ SubSeq(walk'.seen, 1, Len(walk.seen)) = walk.seen
    /\ walk.pc \in {"call", "resolving"} => SeenHas(walk'.seen, walk.arg)

C32_Returned ==
  walk.pc = "returned" =>
    /\ SeenHas(walk.seen, walk.entry)
    /\ \A s \in Collected : Retrievable(s) => s \in GraphFrom(world, walk.entry)

\* C32: the array collectDeps(entry) returns holds entry and every specifier the walk
\* reached, those it skipped as unresolvable included; every element that retrieveModule
\* accepts is reachable from entry.
C32_CollectedArray == []C32_Returned /\ [][C32_Step]_vars

\* The walk from A skipped C, which does not resolve: C is in the array, retrieveModule
\* threw for it and returned the record of B.
C32_Witness ==
  /\ walk.pc = "returned"
  /\ walk.entry = "A"
  /\ walk.seen = <<"A", "B", "C", "E">>
  /\ retrieved.specifier = "C"
  /\ retrieved.kind = "throw"
  /\ Retrievable("B")
  /\ ~Retrievable("C")

(***************************************************************************)
(* Ingestion of a snapshot that cannot be transformed.                     *)
(***************************************************************************)
C33_Step ==
  \A c \in CallIds :
    (calls[c].pc = "running" /\ calls'[c].pc = "failed")
      => (modules' = modules /\ idToSpecifierCache' = idToSpecifierCache)

\* C33: ingestion is all-or-nothing.  Whenever resolve(id, null) fails, for a failing
\* command or for an entry that cannot be transformed, the module map and the memo are
\* as they were before the call.
C33_AllOrNothing == [][C33_Step]_vars

(***************************************************************************)
(* The module map is closed under the dependencies it stores.              *)
(***************************************************************************)
\* The output of the command for id has an entry for the target, after redirects, of
\* every dependency of its ESM entries.
SnapshotComplete(w, id) ==
  CommandFails(w, id) \/
    LET info == DenoInfo(w, id)
        listed == {info.modules[i].specifier : i \in DOMAIN info.modules}
    IN  \A i \in DOMAIN info.modules :
          IsEsm(info.modules[i]) =>
            \A j \in DOMAIN info.modules[i].dependencies :
              LET target == DepTarget(info.modules[i].dependencies[j])
              IN  (IF target \in DOMAIN info.redirects THEN info.redirects[target]
                   ELSE target) \in listed

\* The projects whose snapshots are all complete.
CompleteProjects ==
  {w \in {WorldA, WorldB, WorldPartial, WorldChain, WorldTypeOnly} :
     \A id \in RootIds : SnapshotComplete(w, id)}

C34_Closed ==
  \A s \in DOMAIN modules :
    IsEsm(modules[s]) =>
      \A i \in DOMAIN modules[s].dependencies :
        RetrieveModuleResult(modules, modules[s].dependencies[i].specifier).kind = "return"

C34_Accepted ==
  (lastNested.kind = "return" /\ lastNested.value # Null)
    => RetrieveModuleResult(modules, lastNested.value).kind = "return"

\* C34: when every snapshot lists an entry for each dependency target after redirects,
\* every dependency specifier of every stored ESM record is a key of the module map, and
\* what resolve(id, I) returns for a stored ESM importer I, if not null, is accepted by
\* retrieveModule.
C34_CacheClosure ==
  world \in CompleteProjects => (C34_Closed /\ C34_Accepted)

(***************************************************************************)
(* The resolveId hook of plugins/vite-deno-resolver.ts up to the point     *)
(* where it either returns or calls the resolver: the importer is          *)
(* classified, then the id is screened.  Ids and paths are sequences of    *)
(* text pieces; "NUL" is the character U+0000.                             *)
(***************************************************************************)
NoImporter == [present |-> FALSE, text |-> <<>>]
Importer(text) == [present |-> TRUE, text |-> text]

\* `root` of the resolved configuration
Root == <<"/", "r">>

\* String.prototype.includes
Includes(s, part) ==
  \E i \in 0..(Len(s) - Len(part)) : SubSeq(s, i + 1, i + Len(part)) = part

\* extname of @std/path: from the last "." of the last path segment to the end, and
\* empty when the segment has no "." or only a leading one.
Extname(path) ==
  LET slashes == {i \in 1..Len(path) : path[i] = "/"}
      start == IF slashes = {} THEN 1
               ELSE (CHOOSE i \in slashes : \A j \in slashes : j <= i) + 1
      dots == {i \in start..Len(path) : path[i] = "."}
      dot == CHOOSE i \in dots : \A j \in dots : j <= i
  IN  IF dots = {} \/ dot = start THEN <<>> ELSE SubSeq(path, dot, Len(path))

Exts == {<<".", "js">>, <<".", "ts">>, <<".", "jsx">>, <<".", "tsx">>}

InvalidPrefixes == {<<"NUL">>, <<"/">>, <<".">>, <<"virtual", ":">>}

GateNone == [kind |-> "null", value |-> <<>>]

\* The importer test without the extension list: every file of the project is resolved.
ImporterSpecifierAnyExt(importer) ==
  IF ~importer.present \/ importer.text = <<>> THEN GateNone
  ELSE LET specifier == ParseDenoSpecifier(importer.text)
       IN  IF specifier.kind = "throw" THEN [kind |-> "throw", value |-> <<>>]
           ELSE IF specifier.kind = "value" /\ specifier.value # <<>>
             THEN [kind |-> "value", value |-> specifier.value]
           ELSE IF /\ StartsWith(importer.text, Root \o <<"/">>)
                   /\ ~Includes(importer.text, <<"/", "node_modules", "/">>)
             THEN [kind |-> "resolve", value |-> importer.text]
           ELSE GateNone

\* The async function that computes importerSpecifier: "null" and "value" are what it
\* returns without a call, "resolve" is `await resolver.resolve(importer, null)`, and
\* "throw" is the URIError of parseDenoSpecifier.
ImporterSpecifier(importer) ==
  IF ~importer.present \/ importer.text = <<>> THEN GateNone
  ELSE LET specifier == ParseDenoSpecifier(importer.text)
       IN  IF specifier.kind = "throw" THEN [kind |-> "throw", value |-> <<>>]
           ELSE IF specifier.kind = "value" /\ specifier.value # <<>>
             THEN [kind |-> "value", value |-> specifier.value]
           ELSE IF /\ StartsWith(importer.text, Root \o <<"/">>)
                   /\ ~Includes(importer.text, <<"/", "node_modules", "/">>)
             THEN IF Extname(importer.text) \notin Exts THEN GateNone
                  ELSE [kind |-> "resolve", value |-> importer.text]
           ELSE GateNone

\* resolveId(id, importer) up to its first call of the resolver: "null" is `return null`
\* with no call made, "call" is resolver.resolve(arg, from), "throw" a rejection.
ResolveIdGate(id, importer) ==
  LET importerSpecifier == ImporterSpecifier(importer)
      truthyImporter == importer.present /\ importer.text # <<>>
  IN  IF importerSpecifier.kind = "throw"
        THEN [kind |-> "throw", arg |-> <<>>, from |-> NoImporter]
      ELSE IF importerSpecifier.kind = "resolve"
        THEN [kind |-> "call", arg |-> importerSpecifier.value, from |-> NoImporter]
      ELSE IF truthyImporter /\ importerSpecifier.kind = "null"
        THEN [kind |-> "null", arg |-> <<>>, from |-> NoImporter]
      ELSE IF /\ importerSpecifier.kind = "null"
              /\ \E prefix \in InvalidPrefixes : StartsWith(id, prefix)
        THEN [kind |-> "null", arg |-> <<>>, from |-> NoImporter]
      ELSE [kind |-> "call", arg |-> id,
            from |-> IF importerSpecifier.kind = "value"
                       THEN Importer(importerSpecifier.value) ELSE NoImporter]

GateIds ==
  {<<>>, <<"x">>, <<"x", "/", "x">>, <<"jsr", ":", "x">>, <<"@", "x", "/", "x">>,
   <<"NUL", "x">>, <<"NUL", "virtual", ":", "x">>, <<"/", "x">>, <<"/", "r", "/", "x", ".", "ts">>,
   <<".", "/", "x">>, <<".", ".", "/", "x">>, <<".", "x">>,
   <<"virtual", ":", "x">>, <<"virtual">>, <<"virtual", "x">>, <<"x", "virtual", ":">>}

GateDirs ==
  {<<>>, <<"src", "/">>, <<"node_modules", "/">>, <<"src", "/", "node_modules", "/", "x", "/">>,
   <<"node_modules">>}

GateFiles ==
  {<<"x", ".", e>> : e \in {"js", "ts", "jsx", "tsx", "css", "json", "mjs"}}
    \cup {<<"x">>, <<".", "ts">>, <<"x", ".", "d", ".", "ts">>, <<"x", ".">>, <<"x", ".", "ts", ".", "x">>}

GateImporters ==
  {NoImporter, Importer(<<>>)}
    \cup {Importer(base \o <<"/">> \o dir \o file) :
            base \in {Root, <<"/", "rx">>, <<"/", "o">>, <<"/", "o", "/", "r">>},
            dir \in GateDirs, file \in GateFiles}
    \cup {Importer(Root), Importer(Root \o <<".", "ts">>), Importer(<<"x", ".", "ts">>)}
    \cup {Importer(ToDenoSpecifier(<<"x">>)), Importer(ToDenoSpecifier(<<"x", ":", "x">>)),
          Importer(Sentinel), Importer(Sentinel \o <<"%">>), Importer(NulDeno \o <<"x">>),
          Importer(<<"NUL", "x">>), Importer(<<"virtual", ":", "x">>)}

InitGate ==
  /\ NoResolver
  /\ FreshResolver
  /\ walk = NoWalk
  /\ walkLog = NoWalkLog
  /\ codec \in {[op |-> "resolveId", id |-> id, importer |-> importer] :
                   id \in GateIds, importer \in GateImporters}

\* One resolveId call of the bundler, followed to its return or its first resolver call.
GateQuery ==
  /\ UNCHANGED legacyVars
  /\ codec.op = "resolveId"
  /\ codec' = [op |-> "gated", id |-> codec.id, importer |-> codec.importer,
               outcome |-> ResolveIdGate(codec.id, codec.importer)]
  /\ UNCHANGED <<resolverVars, walk, walkLog>>

NextGate == GateQuery

SpecGate == InitGate /\ [][NextGate]_vars

\* The id begins with U+0000, "/", "." or "virtual:".
C35_ScreenedId(id) ==
  \/ Len(id) >= 1 /\ id[1] \in {"NUL", "/", "."}
  \/ Len(id) >= 2 /\ id[1] = "virtual" /\ id[2] = ":"

\* The importer is a virtual id of the plugin: it begins with the seven characters
\* of "\0deno::".
C35_VirtualImporter(text) ==
  Len(text) >= 7 /\ \A i \in 1..7 : text[i] = Sentinel[i]

\* The importer is a file below the project root, with no node_modules directory on its
\* path, whose name ends in .js, .ts, .jsx or .tsx.
C35_ProjectSource(text) ==
  /\ Len(text) >= 5
  /\ \A i \in 1..Len(Root) : text[i] = Root[i]
  /\ text[Len(Root) + 1] = "/"
  /\ ~\E i \in 1..(Len(text) - 2) :
         text[i] = "/" /\ text[i + 1] = "node_modules" /\ text[i + 2] = "/"
  /\ text[Len(text) - 1] = "."
  /\ text[Len(text)] \in {"js", "ts", "jsx", "tsx"}
  /\ text[Len(text) - 2] # "/"

\* C35: resolveId returns null without calling the resolver (so without an Invoker call)
\* when there is no importer and the id begins with U+0000, "/", "." or "virtual:", and
\* when there is an importer that is neither a virtual id nor a .js/.ts/.jsx/.tsx file
\* of the project outside node_modules.
C35_NoneOfOurBusiness ==
  codec.op = "gated" =>
    /\ (~codec.importer.present /\ C35_ScreenedId(codec.id))
         => codec.outcome.kind = "null"
    /\ (/\ codec.importer.present
        /\ codec.importer.text # <<>>
        /\ ~C35_VirtualImporter(codec.importer.text)
        /\ ~C35_ProjectSource(codec.importer.text))
         => codec.outcome.kind = "null"

C35_Witness ==
  /\ codec.op = "gated"
  /\ codec.importer = Importer(<<"/", "r", "/", "src", "/", "x", ".", "css">>)
  /\ codec.id = <<"jsr", ":", "x">>
  /\ codec.outcome.kind = "null"

C35_WitnessScreened ==
  /\ codec.op = "gated"
  /\ ~codec.importer.present
  /\ codec.id = <<"NUL", "x">>
  /\ codec.outcome.kind = "null"

(***************************************************************************)
(* RemoteAssetCache of plugins/vite-load-hook.ts: getLocalPath(url) is an  *)
(* async function, so other calls run while one waits for fetch(url), for  *)
(* the text of the response, or for the file to be written.                *)
(***************************************************************************)
\* `urlPath.split('/').pop() || 'asset'`
AssetFilename(url) ==
  IF url[Len(url)] = "/" THEN "asset" ELSE url[Len(url)]

\* join(tempDir, `${hashHex}-${filename}`), hashHex being the first eight hex digits of
\* the SHA-256 of the url
AssetLocalPath(url) == <<"vite-deno-assets-", <<"sha256", url>>, "-", AssetFilename(url)>>

AssetCached(url) == MapHas(assets.cache, url)

\* getLocalPath(url) up to its first await: a cached url is answered at once, any other
\* url is fetched.
GetLocalPath(k, url) ==
  /\ assets.loads[k].pc = "idle"
  /\ assets.issued < MaxAssetCalls
  /\ assets' =
       IF AssetCached(url)
         THEN [assets EXCEPT !.issued = @ + 1,
                             !.loads[k] = [pc |-> "done", url |-> url, content |-> "",
                                           result |-> MapGet(assets.cache, url)]]
         ELSE [assets EXCEPT !.issued = @ + 1,
                             !.fetches[url] = @ + 1,
                             !.loads[k] = [pc |-> "fetching", url |-> url, content |-> "",
                                           result |-> <<>>]]
  /\ UNCHANGED <<resolverVars, codec, walk, walkLog, esmModules, codeSpecifierToPath,
                 idToSpecifier, unknownModules, resolverLock, cacheFile, hooks, session>>

\* The response arrives: a status outside 2xx throws, otherwise the text is read and
\* the file is being written.
AssetFetched(k, ok) ==
  /\ assets.loads[k].pc = "fetching"
  /\ assets' = [assets EXCEPT !.loads[k].pc = IF ok THEN "writing" ELSE "failed",
                              !.loads[k].content = IF ok THEN "text" ELSE ""]
  /\ UNCHANGED <<resolverVars, codec, walk, walkLog, esmModules, codeSpecifierToPath,
                 idToSpecifier, unknownModules, resolverLock, cacheFile, hooks, session>>

\* Deno.writeTextFile has finished: the mapping is cached and the path returned.
AssetWritten(k) ==
  /\ assets.loads[k].pc = "writing"
  /\ LET localPath == AssetLocalPath(assets.loads[k].url)
     IN  assets' = [assets EXCEPT
                      !.cache = MapSet(@, assets.loads[k].url, localPath),
                      !.loads[k].pc = "done",
                      !.loads[k].result = localPath]
  /\ UNCHANGED <<resolverVars, codec, walk, walkLog, esmModules, codeSpecifierToPath,
                 idToSpecifier, unknownModules, resolverLock, cacheFile, hooks, session>>

\* The caller has taken the answer; the slot is free for another call.
AssetSettle(k) ==
  /\ assets.loads[k].pc \in {"done", "failed"}
  /\ assets' = [assets EXCEPT !.loads[k] = IdleLoad]
  /\ UNCHANGED <<resolverVars, codec, walk, walkLog, esmModules, codeSpecifierToPath,
                 idToSpecifier, unknownModules, resolverLock, cacheFile, hooks, session>>

NextAssets ==
  \/ \E k \in Loads, url \in AssetUrls : GetLocalPath(k, url)
  \/ \E k \in Loads, ok \in BOOLEAN : AssetFetched(k, ok)
  \/ \E k \in Loads : AssetWritten(k)
  \/ \E k \in Loads : AssetSettle(k)

SpecAssets == Init /\ [][NextAssets]_vars

\* C36: getLocalPath downloads each url at most once per process: however many calls are
\* made with one url, also calls made before an earlier one has completed, one fetch is
\* performed for it and all calls return the same local path.
C36_FetchedOnce ==
  /\ \A url \in AssetUrls : assets.fetches[url] <= 1
  /\ \A j, k \in Loads :
       (/\ assets.loads[j].pc = "done"
        /\ assets.loads[k].pc = "done"
        /\ assets.loads[j].url = assets.loads[k].url)
         => assets.loads[j].result = assets.loads[k].result

\* The part of C36 that the code keeps: the calls with one url return the same path,
\* and a url that is in the cache is not fetched again.
C36_SamePath ==
  \A j, k \in Loads :
    (/\ assets.loads[j].pc = "done"
     /\ assets.loads[k].pc = "done"
     /\ assets.loads[j].url = assets.loads[k].url)
      => assets.loads[j].result = assets.loads[k].result

C36_CachedNotFetched ==
  [][\A url \in AssetUrls :
       AssetCached(url) => assets'.fetches[url] = assets.fetches[url]]_vars

\* Two calls with one url are both waiting for their own fetch.
C36_TwoFetches ==
  /\ assets.loads[1].pc = "fetching"
  /\ assets.loads[2].pc = "fetching"
  /\ assets.loads[1].url = assets.loads[2].url
  /\ assets.fetches[assets.loads[1].url] = 2

(***************************************************************************)
(* class Lock by itself: clients that call acquire(), go on when their     *)
(* promise is resolved, and call release().  `ticket` is history: the      *)
(* position of the client's acquire() among all acquire() calls.           *)
(***************************************************************************)
LockClients == 1..MaxClients

IdleClient == [pc |-> "idle", ticket |-> 0]

InitLock ==
  /\ FreshResolver
  /\ codec = NoCodec
  /\ walk = NoWalk
  /\ walkLog = NoWalkLog
  /\ esmModules = EmptyMap
  /\ codeSpecifierToPath = EmptyMap
  /\ idToSpecifier = EmptyMap
  /\ unknownModules = {}
  /\ resolverLock = [locked |-> FALSE, queue |-> <<>>]
  /\ cacheFile = Missing
  /\ hooks = [t \in LockClients |-> IdleClient]
  /\ session = NoSession
  /\ assets = NoAssets

\* acquire(): a free lock is taken and the promise is already resolved; otherwise the
\* resolver of the promise is pushed onto the queue.
ClientAcquire(t) ==
  /\ hooks[t].pc = "idle"
  /\ session.issued < MaxAcquires
  /\ session' = [session EXCEPT !.issued = @ + 1]
  /\ IF ~resolverLock.locked
       THEN /\ resolverLock' = [resolverLock EXCEPT !.locked = TRUE]
            /\ hooks' = [hooks EXCEPT ![t] = [pc |-> "granted", ticket |-> session.issued + 1]]
       ELSE /\ resolverLock' = [resolverLock EXCEPT !.queue = Append(@, t)]
            /\ hooks' = [hooks EXCEPT ![t] = [pc |-> "queued", ticket |-> session.issued + 1]]
  /\ UNCHANGED <<resolverVars, codec, walk, walkLog, assets, esmModules, codeSpecifierToPath,
                 idToSpecifier, unknownModules, cacheFile>>

\* `await lock.acquire()` returns in the client whose promise is resolved.
ClientResume(t) ==
  /\ hooks[t].pc = "granted"
  /\ hooks' = [hooks EXCEPT ![t].pc = "holding"]
  /\ UNCHANGED <<resolverVars, codec, walk, walkLog, assets, esmModules, codeSpecifierToPath,
                 idToSpecifier, unknownModules, resolverLock, cacheFile, session>>

\* release() by the client that holds the lock.
ClientRelease(t) ==
  /\ hooks[t].pc = "holding"
  /\ hooks' = [Resumed(hooks, resolverLock) EXCEPT ![t] = IdleClient]
  /\ resolverLock' = LockRelease(resolverLock)
  /\ UNCHANGED <<resolverVars, codec, walk, walkLog, assets, esmModules, codeSpecifierToPath,
                 idToSpecifier, unknownModules, cacheFile, session>>

NextLock ==
  \/ \E t \in LockClients : ClientAcquire(t)
  \/ \E t \in LockClients : ClientResume(t)
  \/ \E t \in LockClients : ClientRelease(t)

SpecLock == InitLock /\ [][NextLock]_vars

Waiting(t) == hooks[t].pc = "queued"
PastAcquire(t) == hooks[t].pc \in {"granted", "holding"}

\* The lock is never free while a client waits, one client at most is past acquire(),
\* and every waiting client called acquire() after that one.
C37_OldestFirst ==
  /\ (\E t \in LockClients : Waiting(t)) => resolverLock.locked
  /\ \A t, u \in LockClients : PastAcquire(t) /\ PastAcquire(u) => t = u
  /\ \A t, u \in LockClients :
       PastAcquire(t) /\ Waiting(u) => hooks[t].ticket < hooks[u].ticket

\* A waiting client that obtains the lock is the one that has waited longest, and it
\* obtains it in the step of the release(), with the lock taken before and after; a
\* release() while clients wait resumes one of them; and a client that calls acquire()
\* while the lock is taken, also between a release() and the resumption of the client
\* it resumed, waits behind all the clients that wait already.
C37_HandOver ==
  /\ \A t \in LockClients :
       (Waiting(t) /\ hooks'[t].pc # "queued")
         => /\ hooks'[t].pc = "granted"
            /\ \A u \in LockClients : (Waiting(u) /\ u # t) => hooks[t].ticket < hooks[u].ticket
            /\ resolverLock.locked /\ resolverLock'.locked
            /\ \E h \in LockClients : hooks[h].pc = "holding" /\ hooks'[h].pc = "idle"
  /\ \A h \in LockClients :
       (hooks[h].pc = "holding" /\ hooks'[h].pc = "idle" /\ \E u \in LockClients : Waiting(u))
         => /\ resolverLock'.locked
            /\ \E t \in LockClients : Waiting(t) /\ hooks'[t].pc = "granted"
  /\ \A t \in LockClients :
       (hooks[t].pc = "idle" /\ hooks'[t].pc # "idle" /\ resolverLock.locked)
         => /\ hooks'[t].pc = "queued"
            /\ \A u \in LockClients : Waiting(u) => hooks[u].ticket < hooks'[t].ticket
            /\ \A u \in LockClients : Waiting(u) => hooks'[u].pc = "queued"

\* C37: Lock grants are first-in first-out: the clients blocked in acquire() obtain the
\* lock in the order of their acquire() calls, release() hands the lock to the oldest
\* waiter without the lock becoming free in between, and a client that arrives during
\* the hand-over does not overtake a waiting client.
C37_Fifo == []C37_OldestFirst /\ [][C37_HandOver]_vars

\* Client 2 has been handed the lock and has not gone on yet, client 3 still waits, and
\* client 1, which called acquire() during the hand-over, waits behind client 3.
C37_Witness ==
  /\ hooks[2] = [pc |-> "granted", ticket |-> 2]
  /\ hooks[3] = [pc |-> "queued", ticket |-> 3]
  /\ hooks[1] = [pc |-> "queued", ticket |-> 4]
  /\ resolverLock = [locked |-> TRUE, queue |-> <<3, 1>>]

(***************************************************************************)
(* The path index of Resolver against its module store.                    *)
(***************************************************************************)
\* C38: in a session that started from no cache file or from one that saveCache wrote,
\* every value of codeSpecifierToPath is a key of esmModules, and the record stored
\* under that path has the specifier that leads to it.
C38_PathIndex ==
  \A s \in DOMAIN codeSpecifierToPath :
    /\ MapHas(esmModules, codeSpecifierToPath[s])
    /\ esmModules[codeSpecifierToPath[s]].specifier = s

\* A second session, started from the file that the first one wrote, has run the
\* command for one more id: the index names the paths of A, B and C.
C38_Witness ==
  /\ session.phase = "serving"
  /\ session.read.file # Missing
  /\ \E t \in HookIds : hooks[t].pc = "done" /\ hooks[t].inv >= 1
  /\ DOMAIN codeSpecifierToPath = {"A", "B", "C"}
  /\ codeSpecifierToPath["C"] = "/cache/c.js"
  /\ esmModules["/cache/c.js"].specifier = "C"

====
